---- MODULE Spec2Model ----
(***************************************************************************)
(* Statement parsing and reconciliation engine of lectura_pdf.             *)
(*                                                                         *)
(* The parts of the program are modelled one by one, each with its own     *)
(* specification over the shared variable list:                            *)
(*   SpecValidator   the reconciliation validators (ai_parsers.py,         *)
(*                   parsers.py)                                           *)
(*   SpecClassifier  the combinatorial deposit classifier of               *)
(*                   BBVADebitParser.extract_movements                     *)
(*   SpecScanner     BanorteCreditParser._parse_regular_section            *)
(*   SpecBalance     database.calculate_starting_balance over the          *)
(*                   balances and movements tables                         *)
(*   SpecNormalizer  the rows ScotiabankDebitParser and ScotiabankV2Parser *)
(*                   return as standard movements                          *)
(*   SpecHeader      the summary totals the parsers read from the text     *)
(*   SpecDispatcher  get_parser                                            *)
(*   SpecUpload      POST /upload and DELETE /uploads/{upload_id} over     *)
(*                   the movements, msi_movements and uploads tables       *)
(*   SpecColumns     the column detection of ScotiabankDebitParser, page   *)
(*                   by page                                               *)
(*   SpecCredit      the installment and regular sections of the three     *)
(*                   credit card parsers                                   *)
(*   SpecSections    the loops of the three credit card parsers, line by   *)
(*                   line                                                  *)
(*   SpecAnchors     database.save_balance over the balances table         *)
(*                                                                         *)
(* Money is kept in integer cents (0.10 is 10, 1000.00 is 100000).         *)
(* A Python None is the empty sequence <<>>, a value v is <<v>>.           *)
(***************************************************************************)
EXTENDS Integers, Sequences, FiniteSets, TLC

VARIABLES
    rv_pc,        \* validator: "input", then the validator that ran
    rv_header,    \* validator: the StatementHeader handed in
    rv_movs,      \* validator: the movement set handed in
    rv_report,    \* validator: the report returned
    bd_pc,        \* classifier: "input" | "done"
    candidatos,   \* classifier: candidate amounts, in statement order
    total_depositos_esperado,  \* classifier: declared deposit total
    total_retiros_esperado,    \* classifier: declared charges total
    bd_out,       \* classifier: what extract_movements returned / printed
    rs_pc,        \* scanner: "scan" | "done"
    rs_lines,     \* scanner: the section's lines
    rs_pos,       \* scanner: index of the next line of the for loop
    current_mov,  \* scanner: the pending record (None or a record)
    registros,    \* scanner: the movements emitted so far
    sb_pc,        \* balance: "db" | "done"
    balances,     \* balance: balances rows of one (bank, account_type)
    movements,    \* balance: movements rows of one (bank, account_type)
    sb_call,      \* balance: the call made (target date, row order read)
    sb_result,    \* balance: the balance calculate_starting_balance returned
    nz_pc,        \* normaliser: "debit_in" | "v2_in" | "debit" | "v2"
    nz_rows,      \* normaliser: the raw rows / pending records of the statement
    nz_start,     \* normaliser: the header's saldo_inicial (start_balance)
    nz_out,       \* normaliser: the DataFrame extract_movements returned
    hd_pc,        \* header: "text", then the header parser that ran
    hd_bank,      \* header: the institution whose statement the text is
    hd_text,      \* header: summary label -> amount text printed (None: not printed)
    hd_header,    \* header: the header / totals the parser produced
    gp_pc,        \* dispatcher: "text" | "done"
    gp_text,      \* dispatcher: the markers in the first 1000 characters and after them
    gp_parser,    \* dispatcher: what get_parser returned (None or a parser class)
    up_pc,        \* upload: "ready" | "uploaded" | "deleted"
    up_db,        \* upload: the movements, msi_movements and uploads tables
    up_saved,     \* upload: for each upload id returned, the rows its flow inserted
    up_last,      \* upload: the last request handled and what it did
    cl_pages,     \* columns: the pages of the PDF (words with coordinates)
    cl_pos,       \* columns: index of the next page of the loop over pdf.pages
    cl_filas,     \* columns: per page done, the limits found and the raw rows built
    cl_movimientos, \* columns: the movements collected so far
    ms_pc,        \* credit statements: "ready" before extract_movements, "done" after
    ms_lines,     \* credit statements: the lines of the statement text
    ms_out,       \* credit statements: the parser run and the rows it returned
    sx_parser,    \* section scan: the credit parser whose loop over the lines runs
    sx_lines,     \* section scan: the lines of the statement text
    sx_pos,       \* section scan: index of the next line of the loop
    sx_st,        \* section scan: the flags, the pending row, the buffer and the rows so far
    an_pc,        \* anchors: "db" while the balances table is in use
    an_rows,      \* anchors: the rows of the balances table, in rowid order
    an_calls      \* anchors: the save_balance calls made so far, in order

rv_vars == << rv_pc, rv_header, rv_movs, rv_report >>
bd_vars == << bd_pc, candidatos, total_depositos_esperado, total_retiros_esperado,
             bd_out >>
rs_vars == << rs_pc, rs_lines, rs_pos, current_mov, registros >>
sb_vars == << sb_pc, balances, movements, sb_call, sb_result >>
nz_vars == << nz_pc, nz_rows, nz_start, nz_out >>
hd_vars == << hd_pc, hd_bank, hd_text, hd_header >>
gp_vars == << gp_pc, gp_text, gp_parser >>
up_vars == << up_pc, up_db, up_saved, up_last >>
cl_vars == << cl_pages, cl_pos, cl_filas, cl_movimientos >>
ms_vars == << ms_pc, ms_lines, ms_out >>
sx_vars == << sx_parser, sx_lines, sx_pos, sx_st >>
an_vars == << an_pc, an_rows, an_calls >>

\* -- frames --
\* Every variable, component by component
vars == << rv_vars,
           bd_vars,
           rs_vars,
           sb_vars,
           nz_vars,
           hd_vars,
           gp_vars,
           up_vars,
           cl_vars,
           ms_vars,
           sx_vars,
           an_vars >>

\* What the rv component leaves alone, and the other components at rest
rv_rest == << bd_vars, rs_vars, sb_vars, nz_vars, hd_vars, gp_vars, up_vars, cl_vars, ms_vars, sx_vars, an_vars >>

\* What the bd component leaves alone, and the other components at rest
bd_rest == << rv_vars, rs_vars, sb_vars, nz_vars, hd_vars, gp_vars, up_vars, cl_vars, ms_vars, sx_vars, an_vars >>

\* What the rs component leaves alone, and the other components at rest
rs_rest == << rv_vars, bd_vars, sb_vars, nz_vars, hd_vars, gp_vars, up_vars, cl_vars, ms_vars, sx_vars, an_vars >>

\* What the sb component leaves alone, and the other components at rest
sb_rest == << rv_vars, bd_vars, rs_vars, nz_vars, hd_vars, gp_vars, up_vars, cl_vars, ms_vars, sx_vars, an_vars >>

\* What the nz component leaves alone, and the other components at rest
nz_rest == << rv_vars, bd_vars, rs_vars, sb_vars, hd_vars, gp_vars, up_vars, cl_vars, ms_vars, sx_vars, an_vars >>

\* What the hd component leaves alone, and the other components at rest
hd_rest == << rv_vars, bd_vars, rs_vars, sb_vars, nz_vars, gp_vars, up_vars, cl_vars, ms_vars, sx_vars, an_vars >>

\* What the gp component leaves alone, and the other components at rest
gp_rest == << rv_vars, bd_vars, rs_vars, sb_vars, nz_vars, hd_vars, up_vars, cl_vars, ms_vars, sx_vars, an_vars >>

\* What the up component leaves alone, and the other components at rest
up_rest == << rv_vars, bd_vars, rs_vars, sb_vars, nz_vars, hd_vars, gp_vars, cl_vars, ms_vars, sx_vars, an_vars >>

\* What the cl component leaves alone, and the other components at rest
cl_rest == << rv_vars, bd_vars, rs_vars, sb_vars, nz_vars, hd_vars, gp_vars, up_vars, ms_vars, sx_vars, an_vars >>

\* What the ms component leaves alone, and the other components at rest
ms_rest == << rv_vars, bd_vars, rs_vars, sb_vars, nz_vars, hd_vars, gp_vars, up_vars, cl_vars, sx_vars, an_vars >>

\* What the sx component leaves alone, and the other components at rest
sx_rest == << rv_vars, bd_vars, rs_vars, sb_vars, nz_vars, hd_vars, gp_vars, up_vars, cl_vars, ms_vars, an_vars >>

\* What the an component leaves alone, and the other components at rest
an_rest == << rv_vars, bd_vars, rs_vars, sb_vars, nz_vars, hd_vars, gp_vars, up_vars, cl_vars, ms_vars, sx_vars >>
\* -- end frames --

----------------------------------------------------------------------------
(* Shared helpers *)

None == << >>

Some(v) == << v >>

\* Python's `x or 0` on a nullable number
OrZero(x) == IF x = None THEN 0 ELSE x[1]

Abs(x) == IF x < 0 THEN -x ELSE x

\* All sequences over S of length 0..n
SeqsUpTo(S, n) == UNION { [1..k -> S] : k \in 0..n }

\* The parts not under study stay in these states
rv_idle == rv_pc = "off" /\ rv_header = None /\ rv_movs = << >> /\ rv_report = None
bd_idle == bd_pc = "off" /\ candidatos = << >> /\ total_depositos_esperado = 0
           /\ total_retiros_esperado = 0 /\ bd_out = None
rs_idle == rs_pc = "off" /\ rs_lines = << >> /\ rs_pos = 1 /\ current_mov = None
           /\ registros = << >>
sb_idle == sb_pc = "off" /\ balances = << >> /\ movements = << >> /\ sb_call = None
           /\ sb_result = None
nz_idle == nz_pc = "off" /\ nz_rows = << >> /\ nz_start = None /\ nz_out = None
hd_idle == hd_pc = "off" /\ hd_bank = "" /\ hd_text = << >> /\ hd_header = None
gp_idle == gp_pc = "off" /\ gp_text = << >> /\ gp_parser = None
up_idle == up_pc = "off" /\ up_db = << >> /\ up_saved = << >> /\ up_last = None
cl_idle == cl_pages = << >> /\ cl_pos = 0 /\ cl_filas = << >> /\ cl_movimientos = << >>
ms_idle == ms_pc = "off" /\ ms_lines = << >> /\ ms_out = << >>
sx_idle == sx_parser = "" /\ sx_lines = << >> /\ sx_pos = 0 /\ sx_st = << >>
an_idle == an_pc = "off" /\ an_rows = << >> /\ an_calls = << >>

\* -- rest states --
rv_alone == bd_idle /\ rs_idle /\ sb_idle /\ nz_idle /\ hd_idle /\ gp_idle /\ up_idle /\ cl_idle /\ ms_idle /\ sx_idle /\ an_idle

bd_alone == rv_idle /\ rs_idle /\ sb_idle /\ nz_idle /\ hd_idle /\ gp_idle /\ up_idle /\ cl_idle /\ ms_idle /\ sx_idle /\ an_idle

rs_alone == rv_idle /\ bd_idle /\ sb_idle /\ nz_idle /\ hd_idle /\ gp_idle /\ up_idle /\ cl_idle /\ ms_idle /\ sx_idle /\ an_idle

sb_alone == rv_idle /\ bd_idle /\ rs_idle /\ nz_idle /\ hd_idle /\ gp_idle /\ up_idle /\ cl_idle /\ ms_idle /\ sx_idle /\ an_idle

nz_alone == rv_idle /\ bd_idle /\ rs_idle /\ sb_idle /\ hd_idle /\ gp_idle /\ up_idle /\ cl_idle /\ ms_idle /\ sx_idle /\ an_idle

hd_alone == rv_idle /\ bd_idle /\ rs_idle /\ sb_idle /\ nz_idle /\ gp_idle /\ up_idle /\ cl_idle /\ ms_idle /\ sx_idle /\ an_idle

gp_alone == rv_idle /\ bd_idle /\ rs_idle /\ sb_idle /\ nz_idle /\ hd_idle /\ up_idle /\ cl_idle /\ ms_idle /\ sx_idle /\ an_idle

up_alone == rv_idle /\ bd_idle /\ rs_idle /\ sb_idle /\ nz_idle /\ hd_idle /\ gp_idle /\ cl_idle /\ ms_idle /\ sx_idle /\ an_idle

cl_alone == rv_idle /\ bd_idle /\ rs_idle /\ sb_idle /\ nz_idle /\ hd_idle /\ gp_idle /\ up_idle /\ ms_idle /\ sx_idle /\ an_idle

ms_alone == rv_idle /\ bd_idle /\ rs_idle /\ sb_idle /\ nz_idle /\ hd_idle /\ gp_idle /\ up_idle /\ cl_idle /\ sx_idle /\ an_idle

sx_alone == rv_idle /\ bd_idle /\ rs_idle /\ sb_idle /\ nz_idle /\ hd_idle /\ gp_idle /\ up_idle /\ cl_idle /\ ms_idle /\ an_idle

an_alone == rv_idle /\ bd_idle /\ rs_idle /\ sb_idle /\ nz_idle /\ hd_idle /\ gp_idle /\ up_idle /\ cl_idle /\ ms_idle /\ sx_idle
\* -- end rest states --

----------------------------------------------------------------------------
(* Reconciliation validators *)

\* Bound: movements per statement handed to a validator
MaxRvMovs == 2

\* abs(...) < 0.1 in validate_balance
TOL_VALIDATE_BALANCE == 10

\* tol: float = 0.02 of _validation_report_checking
TOL_CHECKING == 2

\* tol: float = 0.05 of BanorteCreditParser._validation_report
TOL_BANORTE == 5

Tipos == { "Abono", "Cargo" }

RvMontos == { 30000, 50000, 50010 }

RvMovement == [ tipo : Tipos, monto : RvMontos ]

RvNullable(S) == { None } \cup { Some(v) : v \in S }

\* final balances around previous + credits - debits, at and beyond each tolerance
RvDeltas == { -11, -10, 0, 2, 3, 5, 6, 10, 11 }

RvHeaders ==
    { [ previous |-> p, credits |-> c, debits |-> d, final |-> f ] :
        p \in RvNullable({0, 100000}), c \in RvNullable({0, 50000}),
        d \in RvNullable({0, 30000}),
        f \in RvNullable({ 120000 + x : x \in RvDeltas } \cup {0, 100000}) }

\* sum(m['monto'] for m in movements if m['tipo'] == tipo)
RECURSIVE SumTipo(_, _)
SumTipo(movs, tipo) ==
    IF movs = << >> THEN 0
    ELSE (IF Head(movs).tipo = tipo THEN Head(movs).monto ELSE 0)
         + SumTipo(Tail(movs), tipo)

\* validate_balance with the balance equation's signs exchanged
validate_balance_signs(movs, initial_balance, final_balance, income, expenses) ==
    LET calc_income == SumTipo(movs, "Abono")
        calc_expenses == SumTipo(movs, "Cargo")
        income_match == Abs(calc_income - OrZero(income)) < TOL_VALIDATE_BALANCE
        expenses_match == Abs(calc_expenses - OrZero(expenses)) < TOL_VALIDATE_BALANCE
        expected_final == OrZero(initial_balance) - OrZero(income) + OrZero(expenses)
        balance_match == Abs(expected_final - OrZero(final_balance)) < TOL_VALIDATE_BALANCE
    IN  IF final_balance = None
        THEN [ status |-> "TypeError" ]
        ELSE [ status |-> "ok",
               valid |-> balance_match /\ income_match /\ expenses_match,
               balance_match |-> balance_match,
               income_match |-> income_match,
               expenses_match |-> expenses_match,
               calc_income |-> calc_income,
               calc_expenses |-> calc_expenses,
               expected_final |-> expected_final,
               diff |-> final_balance[1] - expected_final ]

\* validate_balance with the expected final balance taken from the movement sums
validate_balance_from_sums(movs, initial_balance, final_balance, income, expenses) ==
    LET calc_income == SumTipo(movs, "Abono")
        calc_expenses == SumTipo(movs, "Cargo")
        income_match == Abs(calc_income - OrZero(income)) < TOL_VALIDATE_BALANCE
        expenses_match == Abs(calc_expenses - OrZero(expenses)) < TOL_VALIDATE_BALANCE
        expected_final == OrZero(initial_balance) + calc_income - calc_expenses
        balance_match == Abs(expected_final - OrZero(final_balance)) < TOL_VALIDATE_BALANCE
    IN  IF final_balance = None
        THEN [ status |-> "TypeError" ]
        ELSE [ status |-> "ok",
               valid |-> balance_match /\ income_match /\ expenses_match,
               balance_match |-> balance_match,
               income_match |-> income_match,
               expenses_match |-> expenses_match,
               calc_income |-> calc_income,
               calc_expenses |-> calc_expenses,
               expected_final |-> expected_final,
               diff |-> final_balance[1] - expected_final ]

\* AIBankParser.validate_balance
validate_balance(movs, initial_balance, final_balance, income, expenses) ==
    LET calc_income == SumTipo(movs, "Abono")
        calc_expenses == SumTipo(movs, "Cargo")
        income_match == Abs(calc_income - OrZero(income)) < TOL_VALIDATE_BALANCE
        expenses_match == Abs(calc_expenses - OrZero(expenses)) < TOL_VALIDATE_BALANCE
        expected_final == OrZero(initial_balance) + OrZero(income) - OrZero(expenses)
        balance_match == Abs(expected_final - OrZero(final_balance)) < TOL_VALIDATE_BALANCE
    IN  IF final_balance = None
        THEN [ status |-> "TypeError" ]   \* final_balance - expected_final on None
        ELSE [ status |-> "ok",
               valid |-> balance_match /\ income_match /\ expenses_match,
               balance_match |-> balance_match,
               income_match |-> income_match,
               expenses_match |-> expenses_match,
               calc_income |-> calc_income,
               calc_expenses |-> calc_expenses,
               expected_final |-> expected_final,
               diff |-> final_balance[1] - expected_final ]

\* ScotiabankV2Parser._almost_equal
almost_equal(a, b, tol) ==
    IF a = None \/ b = None THEN FALSE ELSE Abs(a[1] - b[1]) <= tol

\* ScotiabankV2Parser._validation_report_checking; the frame handed in here has
\* the deposito and retiro columns and no saldo column, so last_saldo is None
validation_report_checking(header, df, tol) ==
    LET sum_dep == SumTipo(df, "Abono")
        sum_ret == SumTipo(df, "Cargo")
        saldo_inicial == OrZero(header.previous)
        dep_resumen == OrZero(header.credits)
        ret_resumen == OrZero(header.debits)
        saldo_final == OrZero(header.final)
        expected_final == saldo_inicial + dep_resumen - ret_resumen
        last_saldo == None
    IN  [ status |-> "ok",
          tipo |-> "CHECKING",
          depositos_ok |-> almost_equal(Some(sum_dep), Some(dep_resumen), tol),
          retiros_ok |-> almost_equal(Some(sum_ret), Some(ret_resumen), tol),
          saldo_final_calc_ok |-> almost_equal(Some(expected_final), Some(saldo_final), tol),
          saldo_final_df_ok |-> almost_equal(last_saldo, Some(saldo_final), tol),
          sum_dep_df |-> sum_dep,
          sum_ret_df |-> sum_ret,
          dep_resumen |-> dep_resumen,
          ret_resumen |-> ret_resumen,
          diff_dep |-> sum_dep - dep_resumen,
          diff_ret |-> sum_ret - ret_resumen ]

\* BanorteCreditParser._validation_report (credit card: payments lower the balance)
validation_report(header, df, tol) ==
    LET sum_cargos == SumTipo(df, "Cargo")
        sum_abonos == SumTipo(df, "Abono")
        resumen_cargos == OrZero(header.debits)
        resumen_abonos == OrZero(header.credits)
        saldo_ant == OrZero(header.previous)
        saldo_act == OrZero(header.final)
        saldo_calc == saldo_ant - resumen_abonos + resumen_cargos
    IN  [ status |-> "ok",
          tipo |-> "TDC",
          cargos_vs_resumen_ok |-> Abs(sum_cargos - resumen_cargos) <= tol,
          abonos_vs_resumen_ok |-> Abs(sum_abonos - resumen_abonos) <= tol,
          balance_header_ok |-> Abs(saldo_calc - saldo_act) <= tol,
          sum_cargos_df |-> sum_cargos,
          resumen_cargos |-> resumen_cargos,
          diff_cargos |-> sum_cargos - resumen_cargos,
          sum_abonos_df |-> sum_abonos,
          resumen_abonos |-> resumen_abonos,
          diff_abonos |-> sum_abonos - resumen_abonos,
          saldo_anterior |-> saldo_ant,
          saldo_actual |-> saldo_act,
          saldo_calculado_header |-> saldo_calc ]

RvInit ==
    /\ rv_pc = "input"
    /\ rv_header \in RvHeaders
    /\ rv_movs \in SeqsUpTo(RvMovement, MaxRvMovs)
    /\ rv_report = None

\* app.py / test_ai_extraction.py call validate_balance on the parsed result
ValidateBalance ==
    /\ rv_pc = "input"
    /\ rv_report' = validate_balance(rv_movs, rv_header.previous, rv_header.final,
                                     rv_header.credits, rv_header.debits)
    /\ rv_pc' = "validate_balance"
    /\ UNCHANGED << rv_header, rv_movs >>
    /\ UNCHANGED rv_rest

\* ScotiabankV2Parser.extract_movements calls _validation_report_checking
ValidationReportChecking ==
    /\ rv_pc = "input"
    /\ rv_report' = validation_report_checking(rv_header, rv_movs, TOL_CHECKING)
    /\ rv_pc' = "validation_report_checking"
    /\ UNCHANGED << rv_header, rv_movs >>
    /\ UNCHANGED rv_rest

\* BanorteCreditParser.parse calls _validation_report
ValidationReport ==
    /\ rv_pc = "input"
    /\ rv_report' = validation_report(rv_header, rv_movs, TOL_BANORTE)
    /\ rv_pc' = "validation_report"
    /\ UNCHANGED << rv_header, rv_movs >>
    /\ UNCHANGED rv_rest

InitValidator == RvInit /\ rv_alone

NextValidator == ValidateBalance \/ ValidationReportChecking \/ ValidationReport

SpecValidator == InitValidator /\ [][NextValidator]_vars

----------------------------------------------------------------------------
(* Combinatorial deposit classifier: BBVADebitParser.extract_movements *)

\* Bound: candidate movements of a statement
MaxCand == 5

\* TOLERANCE = 0.01
TOLERANCE == 1

BdAmounts == { 5000, 7500, 10000, 20000, 40000 }

\* The two small amounts of the no-solution scenario, 10.00 and 20.00
BdSmallAmounts == { 1000, 2000 }

BdTotals == { 0, 500, 30000 }

BdRetiros == { 52500 }

\* sum(candidatos[i]["monto"] for i in subset_indices)
RECURSIVE SubsetSum(_, _)
SubsetSum(cands, c) ==
    IF c = << >> THEN 0 ELSE cands[Head(c)] + SubsetSum(cands, Tail(c))

\* abs(subset_sum - total_depositos_esperado) < TOLERANCE
SumMatches(sum, total) == Abs(sum - total) < TOLERANCE

\* The first tuple of itertools.combinations(range(n), r), indices from 1
FirstComb(r) == [ i \in 1..r |-> i ]

\* The tuple itertools.combinations yields after c, or None after the last one
NextComb(c, n) ==
    LET r == Len(c)
        movable == { i \in 1..r : c[i] < n - r + i }
    IN  IF movable = {} THEN None
        ELSE LET i == CHOOSE x \in movable : \A y \in movable : y <= x
             IN  Some([ j \in 1..r |-> IF j < i THEN c[j] ELSE c[i] + 1 + (j - i) ])

\* The inner for loop without its break: the last matching tuple of the size wins
RECURSIVE ScanCombsLast(_, _, _)
ScanCombsLast(cands, total, c) ==
    LET nx == NextComb(c, Len(cands))
        later == IF nx = None THEN None ELSE ScanCombsLast(cands, total, nx[1])
    IN  IF later # None THEN later
        ELSE IF SumMatches(SubsetSum(cands, c), total) THEN Some(c) ELSE None

\* The inner for loop from tuple c on: the first tuple of size Len(c) that matches
RECURSIVE ScanCombs(_, _, _)
ScanCombs(cands, total, c) ==
    IF SumMatches(SubsetSum(cands, c), total) THEN Some(c)
    ELSE LET nx == NextComb(c, Len(cands))
         IN  IF nx = None THEN None ELSE ScanCombs(cands, total, nx[1])

\* for r in range(1, len(candidatos) + 1): ... break on the first match
RECURSIVE FirstMatchFrom(_, _, _)
FirstMatchFrom(cands, total, r) ==
    IF r > Len(cands) THEN None
    ELSE LET hit == ScanCombs(cands, total, FirstComb(r))
         IN  IF hit # None THEN hit ELSE FirstMatchFrom(cands, total, r + 1)

Range(f) == { f[i] : i \in DOMAIN f }

\* calculated_charges that also counts the deposits
RECURSIVE ChargesFromAll(_, _, _)
ChargesFromAll(cands, dep, i) ==
    IF i > Len(cands) THEN 0
    ELSE cands[i] + ChargesFromAll(cands, dep, i + 1)

\* calculated_charges: the sum of the candidates left out of deposit_indices
RECURSIVE ChargesFrom(_, _, _)
ChargesFrom(cands, dep, i) ==
    IF i > Len(cands) THEN 0
    ELSE (IF i \in dep THEN 0 ELSE cands[i]) + ChargesFrom(cands, dep, i + 1)

\* BBVADebitParser.extract_movements from the collected candidates on: the
\* solver for the deposits, the type assignment, the warnings printed and the
\* frame returned
extract_movements_bbva(cands, total_dep, total_ret) ==
    LET hit == IF total_dep = 0 THEN Some(<< >>)
               ELSE FirstMatchFrom(cands, total_dep, 1)
        found_solution == hit # None
        deposit_indices == IF hit = None THEN {} ELSE Range(hit[1])
        calculated_charges == ChargesFrom(cands, deposit_indices, 1)
        regs == [ i \in 1..Len(cands) |->
                    [ monto |-> cands[i],
                      tipo |-> IF i \in deposit_indices THEN "Abono" ELSE "Cargo" ] ]
    IN  [ status |-> "returned",
          returned |-> regs,
          stdout |-> (IF found_solution THEN {} ELSE { "WARNING: no combination" })
                     \cup (IF Abs(calculated_charges - total_ret) > TOLERANCE
                           THEN { "WARNING: charges discrepancy" } ELSE {}),
          found_solution |-> found_solution,
          deposit_indices |-> deposit_indices,
          calculated_charges |-> calculated_charges ]

BdInit ==
    /\ bd_pc = "input"
    /\ candidatos \in SeqsUpTo(BdAmounts, MaxCand) \cup SeqsUpTo(BdSmallAmounts, 2)
    /\ total_depositos_esperado \in BdTotals
    /\ total_retiros_esperado \in BdRetiros
    /\ bd_out = None

ExtractMovementsBBVA ==
    /\ bd_pc = "input"
    /\ bd_out' = extract_movements_bbva(candidatos, total_depositos_esperado,
                                        total_retiros_esperado)
    /\ bd_pc' = "done"
    /\ UNCHANGED << candidatos, total_depositos_esperado, total_retiros_esperado >>
    /\ UNCHANGED bd_rest

InitClassifier == BdInit /\ bd_alone

NextClassifier == ExtractMovementsBBVA

SpecClassifier == InitClassifier /\ [][NextClassifier]_vars

----------------------------------------------------------------------------
(* Multi-line regular-section scanner:                                     *)
(* BanorteCreditParser._parse_regular_section                              *)
(*                                                                         *)
(* A line is the sequence of its whitespace-separated tokens, a            *)
(* description the sequence of the tokens of its joined lines.             *)

\* Bound: lines of a regular section
MaxLines == 4

DateToks == { "24-NOV-2025", "25-NOV-2025" }

\* Tokens AMOUNT_PATTERN ([+-]\$[\d,]+\.\d{2}) matches
AmountToks == { "+$13.00", "-$12,855.46" }

RsLineShapes ==
    { << >>,
      << "24-NOV-2025", "25-NOV-2025", "PAGO", "TDC" >>,
      << "24-NOV-2025", "25-NOV-2025", "COMPRA", "+$13.00" >>,
      << "Transferencia" >>,
      << "CLABE", "-$12,855.46" >>,
      << "+$13.00", "IVA", "+$13.00", "-$12,855.46" >>,
      << "25-NOV-2025", "NOTA" >> }

\* REGULAR_START_PATTERN.match(line): two leading dates
IsRegularStart(line) ==
    Len(line) >= 2 /\ line[1] \in DateToks /\ line[2] \in DateToks

\* AMOUNT_PATTERN.search(line): the first amount token of the line, or None
AmountSearch(line) ==
    LET hits == { i \in 1..Len(line) : line[i] \in AmountToks }
    IN  IF hits = {} THEN None
        ELSE Some(line[CHOOSE i \in hits : \A j \in hits : i <= j])

\* line.replace(tok, ""): every occurrence of the token leaves the line
RECURSIVE ReplaceTok(_, _)
ReplaceTok(line, tok) ==
    IF line = << >> THEN << >>
    ELSE (IF Head(line) = tok THEN << >> ELSE << Head(line) >>)
         \o ReplaceTok(Tail(line), tok)

\* " ".join(desc_lines).strip()
RECURSIVE JoinLines(_)
JoinLines(ls) ==
    IF ls = << >> THEN << >> ELSE Head(ls) \o JoinLines(Tail(ls))

\* _parse_monto on an amount token, in cents ($ and commas removed, [-]?\d+\.\d{2})
parse_monto(tok) ==
    IF tok = "+$13.00" THEN 1300
    ELSE IF tok = "-$12,855.46" THEN -1285546
    ELSE 0

\* "-" in monto_str
HasMinus(tok) == tok = "-$12,855.46"

\* flush_mov: the movement list after flushing the pending record cur
flush_mov(cur, regs) ==
    IF cur = None THEN regs
    ELSE LET mov == cur[1]
             fechas == SubSeq(mov.date_line, 1, 2)
         IN  IF mov.amount_str # None
             THEN Append(regs,
                    [ fecha_oper |-> fechas[1],
                      fecha_liq |-> fechas[2],
                      descripcion |-> JoinLines(mov.desc_lines),
                      monto |-> Abs(parse_monto(mov.amount_str[1])),
                      tipo |-> IF HasMinus(mov.amount_str[1]) THEN "Abono" ELSE "Cargo",
                      categoria |-> "Regular" ])
             ELSE regs

\* The pending record a record-start line opens
start_mov(line) ==
    LET amt == AmountSearch(line)
    IN  [ date_line |-> line,
          desc_lines |-> IF amt # None THEN << ReplaceTok(line, amt[1]) >> ELSE << line >>,
          amount_str |-> amt ]

\* A continuation whose resolving line is left out of the description
continue_mov_drop(mov, line) ==
    IF mov.amount_str = None
    THEN LET amt == AmountSearch(line)
         IN  IF amt # None
             THEN [ mov EXCEPT !.amount_str = amt ]
             ELSE [ mov EXCEPT !.desc_lines = Append(@, line) ]
    ELSE [ mov EXCEPT !.desc_lines = Append(@, line) ]

\* The pending record after a continuation line
continue_mov(mov, line) ==
    IF mov.amount_str = None
    THEN LET amt == AmountSearch(line)
         IN  IF amt # None
             THEN [ mov EXCEPT !.amount_str = amt,
                               !.desc_lines = Append(@, ReplaceTok(line, amt[1])) ]
             ELSE [ mov EXCEPT !.desc_lines = Append(@, line) ]
    ELSE [ mov EXCEPT !.desc_lines = Append(@, line) ]

RsInit ==
    /\ rs_pc = "scan"
    /\ rs_lines \in SeqsUpTo(RsLineShapes, MaxLines)
    /\ rs_pos = 1
    /\ current_mov = None
    /\ registros = << >>

\* if not line: continue
ScanBlankLine ==
    /\ rs_pc = "scan" /\ rs_pos <= Len(rs_lines)
    /\ rs_lines[rs_pos] = << >>
    /\ rs_pos' = rs_pos + 1
    /\ UNCHANGED << rs_pc, rs_lines, current_mov, registros >>
    /\ UNCHANGED rs_rest

\* if self.REGULAR_START_PATTERN.match(line): flush the previous record, open a new one
ScanRecordStart ==
    /\ rs_pc = "scan" /\ rs_pos <= Len(rs_lines)
    /\ rs_lines[rs_pos] # << >>
    /\ IsRegularStart(rs_lines[rs_pos])
    /\ registros' = flush_mov(current_mov, registros)
    /\ current_mov' = Some(start_mov(rs_lines[rs_pos]))
    /\ rs_pos' = rs_pos + 1
    /\ UNCHANGED << rs_pc, rs_lines >>
    /\ UNCHANGED rs_rest

\* elif current_mov: the line continues the pending record
ScanContinuation ==
    /\ rs_pc = "scan" /\ rs_pos <= Len(rs_lines)
    /\ rs_lines[rs_pos] # << >>
    /\ ~IsRegularStart(rs_lines[rs_pos])
    /\ current_mov # None
    /\ current_mov' = Some(continue_mov(current_mov[1], rs_lines[rs_pos]))
    /\ rs_pos' = rs_pos + 1
    /\ UNCHANGED << rs_pc, rs_lines, registros >>
    /\ UNCHANGED rs_rest

\* neither branch: a line before any record start is passed over
ScanOrphanLine ==
    /\ rs_pc = "scan" /\ rs_pos <= Len(rs_lines)
    /\ rs_lines[rs_pos] # << >>
    /\ ~IsRegularStart(rs_lines[rs_pos])
    /\ current_mov = None
    /\ rs_pos' = rs_pos + 1
    /\ UNCHANGED << rs_pc, rs_lines, current_mov, registros >>
    /\ UNCHANGED rs_rest

\* The end of the loop without the last flush_mov()
FinalReturn ==
    /\ rs_pc = "scan" /\ rs_pos > Len(rs_lines)
    /\ registros' = registros
    /\ current_mov' = None
    /\ rs_pc' = "done"
    /\ UNCHANGED << rs_lines, rs_pos >>
    /\ UNCHANGED rs_rest

\* flush_mov() after the loop, return registros
FinalFlush ==
    /\ rs_pc = "scan" /\ rs_pos > Len(rs_lines)
    /\ registros' = flush_mov(current_mov, registros)
    /\ current_mov' = None
    /\ rs_pc' = "done"
    /\ UNCHANGED << rs_lines, rs_pos >>
    /\ UNCHANGED rs_rest

InitScanner == RsInit /\ rs_alone

NextScanner ==
    ScanBlankLine \/ ScanRecordStart \/ ScanContinuation \/ ScanOrphanLine \/ FinalFlush

SpecScanner == InitScanner /\ [][NextScanner]_vars

----------------------------------------------------------------------------
(* Running balance reconstructor: database.calculate_starting_balance over *)
(* the balances and movements rows of one (bank, account_type).            *)
(*                                                                         *)
(* balances maps each month key to None or to its row (the table is        *)
(* UNIQUE on the key); movements is the bag of the rows stored, a row      *)
(* mapped to the number of times it is stored.                             *)

\* Bound: rows in the movements table
MaxMovs == 2

SbMonths == { "ene-2025", "feb-2025" }

\* Date texts as stored (DD-mmm-YYYY), and a text _parse_date_internal rejects
SbDateTexts == { "05-ene-2025", "10-ene-2025", "15-ene-2025", "20-ene-2025" }

SbBadDate == "s/f"

SbSaldos == { 1000, 1200 }

SbBalanceRows ==
    [ saldo_inicial : SbSaldos, saldo_final : SbSaldos,
      fecha_corte : { None } \cup { Some(t) : t \in SbDateTexts } ]

SbMovRows ==
    { [ monto |-> IF t = "Abono" THEN 200 ELSE 100, tipo |-> t, fecha_oper |-> Some(d) ] :
        t \in Tipos, d \in SbDateTexts \cup { SbBadDate } }

\* _parse_date_internal: the datetime of a stored text as its day number, None
\* for NULL, for '' and for a text that does not split into three parts
parse_date_internal(d_str) ==
    IF d_str = None THEN None
    ELSE IF d_str[1] = "05-ene-2025" THEN Some(5)
    ELSE IF d_str[1] = "10-ene-2025" THEN Some(10)
    ELSE IF d_str[1] = "15-ene-2025" THEN Some(15)
    ELSE IF d_str[1] = "20-ene-2025" THEN Some(20)
    ELSE None

\* str(mov['tipo'] or "").strip().lower()
tipo_clean(tipo) ==
    IF tipo = "Abono" THEN "abono" ELSE IF tipo = "Cargo" THEN "cargo" ELSE tipo

\* The stored balances rows, by key
SbStored(bal) == { m \in SbMonths : bal[m] # None }

\* df_balances.dropna(subset=['dt_corte']): the keys of the rows that keep a date
SbDated(bal) == { m \in SbStored(bal) : parse_date_internal(bal[m][1].fecha_corte) # None }

SbCorte(bal, m) == parse_date_internal(bal[m][1].fecha_corte)[1]

\* Every order of the keys in S
RECURSIVE SbPerms(_)
SbPerms(S) ==
    IF S = {} THEN { << >> }
    ELSE UNION { { << m >> \o p : p \in SbPerms(S \ {m}) } : m \in S }

\* df_balances.sort_values('dt_corte', ascending=True): the orders the sort may
\* leave the dated rows in (rows on the same date in either order)
SbSortedOrders(bal) ==
    { o \in SbPerms(SbDated(bal)) :
        \A i \in 1..Len(o) : \A j \in 1..Len(o) :
            i < j => SbCorte(bal, o[i]) <= SbCorte(bal, o[j]) }

\* The loop with target_dt < current_corte: a target on the cutoff date itself
\* falls out of its period
RECURSIVE FindContainingStrict(_, _, _, _, _)
FindContainingStrict(bal, order, target_dt, i, prev) ==
    IF i > Len(order) THEN None
    ELSE LET current_corte == SbCorte(bal, order[i])
         IN  IF prev = None
             THEN IF target_dt < current_corte THEN Some(i)
                  ELSE FindContainingStrict(bal, order, target_dt, i + 1, Some(current_corte))
             ELSE IF prev[1] < target_dt /\ target_dt < current_corte THEN Some(i)
                  ELSE FindContainingStrict(bal, order, target_dt, i + 1, Some(current_corte))

\* The for loop over df_balances from row i on, prev the prev_corte_dt so far:
\* the index of the containing row, or None
RECURSIVE FindContaining(_, _, _, _, _)
FindContaining(bal, order, target_dt, i, prev) ==
    IF i > Len(order) THEN None
    ELSE LET current_corte == SbCorte(bal, order[i])
         IN  IF prev = None
             THEN IF target_dt <= current_corte THEN Some(i)
                  ELSE FindContaining(bal, order, target_dt, i + 1, Some(current_corte))
             ELSE IF prev[1] < target_dt /\ target_dt <= current_corte THEN Some(i)
                  ELSE FindContaining(bal, order, target_dt, i + 1, Some(current_corte))

\* The rows of the bag movs that are stored at least once
SbRowsOf(movs) == { r \in DOMAIN movs : movs[r] > 0 }

\* The for loop over intermediate_movs: +monto for abono, -monto for cargo, over
\* the rows of S, each as often as it is stored
RECURSIVE ApplyMovements(_, _)
ApplyMovements(movs, S) ==
    IF S = {} THEN 0
    ELSE LET r == CHOOSE x \in S : TRUE
             signed == IF tipo_clean(r.tipo) = "abono" THEN r.monto
                       ELSE IF tipo_clean(r.tipo) = "cargo" THEN -r.monto
                       ELSE 0
         IN  movs[r] * signed + ApplyMovements(movs, S \ {r})

SbDt(r) == parse_date_internal(r.fecha_oper)[1]

\* period_mask that forgets the lower bound of the period
PeriodMaskNoStart(dated, period_start_dt, period_corte) ==
    { r \in dated : SbDt(r) <= period_corte }

\* period_mask of the containing period
PeriodMask(dated, period_start_dt, period_corte) ==
    IF period_start_dt # None
    THEN { r \in dated : SbDt(r) > period_start_dt[1] /\ SbDt(r) <= period_corte }
    ELSE { r \in dated : SbDt(r) <= period_corte }

\* calculate_starting_balance, given the order the sort left the balances in
calculate_with(bal, movs, target_date_str, order) ==
    LET target == parse_date_internal(target_date_str)
    IN  IF target = None THEN 0
        ELSE IF SbStored(bal) = {} THEN 0
        ELSE IF SbDated(bal) = {} THEN 0
        ELSE
        LET target_dt == target[1]
            hit == FindContaining(bal, order, target_dt, 1, None)
            dated == { r \in SbRowsOf(movs) : parse_date_internal(r.fecha_oper) # None }
        IN  IF SbRowsOf(movs) = {} \/ dated = {}
            THEN IF hit # None THEN bal[order[hit[1]]][1].saldo_inicial ELSE 0
            ELSE IF hit = None
            THEN LET latest == bal[order[Len(order)]][1]
                     anchor_date == SbCorte(bal, order[Len(order)])
                     inter == { r \in dated : SbDt(r) > anchor_date /\ SbDt(r) < target_dt }
                 IN  latest.saldo_final + ApplyMovements(movs, inter)
            ELSE LET containing == bal[order[hit[1]]][1]
                     period_corte == SbCorte(bal, order[hit[1]])
                     period_start_dt == IF hit[1] = 1 THEN None
                                        ELSE Some(SbCorte(bal, order[hit[1] - 1]))
                     period_movs == PeriodMask(dated, period_start_dt, period_corte)
                     inter == { r \in period_movs : SbDt(r) < target_dt }
                 IN  IF period_movs = {} THEN containing.saldo_inicial
                     ELSE containing.saldo_inicial + ApplyMovements(movs, inter)

\* The number of rows in the movements table
RECURSIVE SbCountIn(_, _)
SbCountIn(movs, S) ==
    IF S = {} THEN 0
    ELSE LET r == CHOOSE x \in S : TRUE IN movs[r] + SbCountIn(movs, S \ {r})

SbStoredCount(movs) == SbCountIn(movs, SbRowsOf(movs))

SbInit ==
    /\ sb_pc = "db"
    /\ balances = [ m \in SbMonths |-> None ]
    /\ movements = [ r \in SbMovRows |-> 0 ]
    /\ sb_call = None
    /\ sb_result = None

\* save_balance: insert the row of the key, or update it on conflict
SaveBalance ==
    /\ sb_pc = "db"
    /\ \E m \in SbMonths, row \in SbBalanceRows :
          balances' = [ balances EXCEPT ![m] = Some(row) ]
    /\ UNCHANGED << sb_pc, movements, sb_call, sb_result >>
    /\ UNCHANGED sb_rest

\* save_movements inserts one more movement row
InsertMovement ==
    /\ sb_pc = "db"
    /\ SbStoredCount(movements) < MaxMovs
    /\ \E r \in SbMovRows :
          movements' = [ movements EXCEPT ![r] = @ + 1 ]
    /\ UNCHANGED << sb_pc, balances, sb_call, sb_result >>
    /\ UNCHANGED sb_rest

\* calculate_starting_balance(bank, account_type, target_date_str)
CalculateStartingBalance ==
    /\ sb_pc = "db"
    /\ \E t \in SbDateTexts \cup { SbBadDate }, order \in SbSortedOrders(balances) :
          /\ sb_call' = Some([ target |-> t, order |-> order ])
          /\ sb_result' = Some(calculate_with(balances, movements, Some(t), order))
    /\ sb_pc' = "done"
    /\ UNCHANGED << balances, movements >>
    /\ UNCHANGED sb_rest

InitBalance == SbInit /\ sb_alone

NextBalance == SaveBalance \/ InsertMovement \/ CalculateStartingBalance

SpecBalance == InitBalance /\ [][NextBalance]_vars

----------------------------------------------------------------------------
(* Normalisation of Scotiabank rows to the standard movement columns *)

\* Bound: rows per statement
MaxNzRows == 2

\* The float NaN that pandas puts in a numeric column for a missing value
NaN == -1

\* Python truthiness of a nullable number: None and 0.0 are false, NaN is true
Truthy(x) == x # None /\ x[1] # 0

\* Cell texts of the deposit / withdrawal columns
NzTexts == { "", "1,500.00", "$ 250.00", "0.00", "REF 123" }

\* ScotiabankDebitParser._parse_monto: '$' and blanks removed, then the first
\* [\d,]+\.\d{2} of the text, 0.0 when there is none
scotia_parse_monto(texto) ==
    CASE texto = ""         -> 0
      [] texto = "1,500.00" -> 150000
      [] texto = "$ 250.00" -> 25000
      [] texto = "0.00"     -> 0
      [] OTHER              -> 0

\* Concepts of the rows of a statement
NzConcepts == { "PAGO SERVICIO", "DEPOSITO EFECTIVO", "SPEI RECIBIDO", "COMISION CHEQUE" }

\* The raw rows of the pages: the texts of the concept and the amount columns
NzDebitRows ==
    [ concepto : { "COMISION CHEQUE", "DEPOSITO EFECTIVO" }, deposito : NzTexts, retiro : NzTexts ]

\* One iteration of the loop of ScotiabankDebitParser.extract_movements
scotia_debit_registro(m) ==
    LET deposito == scotia_parse_monto(m.deposito)
        retiro   == scotia_parse_monto(m.retiro)
    IN  IF deposito > 0
        THEN [ descripcion |-> m.concepto, monto |-> deposito, tipo |-> "Abono" ]
        ELSE IF retiro > 0
        THEN [ descripcion |-> m.concepto, monto |-> retiro, tipo |-> "Cargo" ]
        ELSE [ descripcion |-> m.concepto, monto |-> 0, tipo |-> "Desconocido" ]

\* The keywords of _classify_amount_checking that a concept contains
NzWordsIn(concept) ==
    CASE concept = "PAGO SERVICIO"     -> { "PAGO" }
      [] concept = "DEPOSITO EFECTIVO" -> { "DEPOS" }
      [] concept = "COMISION CHEQUE"   -> { "COMISION" }
      [] OTHER                         -> {}

\* _classify_amount_checking: << deposito, retiro >>
classify_amount_checking(amount, concept) ==
    IF NzWordsIn(concept) \cap { "PAGO", "RETIRO", "CARGO", "TRANSFERENCIA A", "COMISION",
                                 "INTERES" } # {}
        THEN << None, Some(amount) >>
    ELSE IF NzWordsIn(concept) \cap { "DEPOS", "ABONO", "NOMINA", "TRANSFERENCIA DE",
                                      "TRASPASO DE" } # {}
        THEN << Some(amount), None >>
    ELSE << None, None >>

\* The amounts read on the lines of a record: amounts and balances that do and
\* do not continue a balance of 1,000.00, exactly and a few cents off
NzAmountLists ==
    SeqsUpTo({ 5000, 95000 }, 2)
        \cup { << 5000, 5000, 95000 >>, << 5000, 95000, 0 >>,
               << 5000, 100000 >>, << 5000, 95004 >>, << 5000, 95006 >> }

\* A pending record of _parse_checking_movements
NzCurrents == [ concept : NzConcepts, amounts : NzAmountLists ]

\* The pair search with the two directions exchanged
RECURSIVE NzMatchFromSwapped(_, _, _)
NzMatchFromSwapped(amounts, last_saldo, i) ==
    IF i > Len(amounts) - 1 THEN None
    ELSE IF Abs(last_saldo - amounts[i] - amounts[i + 1]) < 5
         THEN << "deposito", amounts[i], amounts[i + 1] >>
    ELSE IF Abs(last_saldo + amounts[i] - amounts[i + 1]) < 5
         THEN << "retiro", amounts[i], amounts[i + 1] >>
    ELSE NzMatchFromSwapped(amounts, last_saldo, i + 1)

\* The loop of flush that looks for (amount, balance) pairs consistent with the
\* last balance: None, or << "retiro" | "deposito", amount, balance >>
RECURSIVE NzMatchFrom(_, _, _)
NzMatchFrom(amounts, last_saldo, i) ==
    IF i > Len(amounts) - 1 THEN None
    ELSE IF Abs(last_saldo - amounts[i] - amounts[i + 1]) < 5
         THEN << "retiro", amounts[i], amounts[i + 1] >>
    ELSE IF Abs(last_saldo + amounts[i] - amounts[i + 1]) < 5
         THEN << "deposito", amounts[i], amounts[i + 1] >>
    ELSE NzMatchFrom(amounts, last_saldo, i + 1)

\* flush of _parse_checking_movements: the row appended for a pending record
checking_flush(current, last_saldo) ==
    LET amounts == current.amounts
        n       == Len(amounts)
        empty   == [ deposito |-> None, retiro |-> None,
                     monto_sin_clasificar |-> None, saldo |-> None ]
        match   == IF last_saldo # None /\ n >= 2
                   THEN NzMatchFrom(amounts, last_saldo[1], 1) ELSE None
    IN  IF match # None
        THEN IF match[1] = "retiro"
             THEN [ empty EXCEPT !.retiro = Some(match[2]), !.saldo = Some(match[3]) ]
             ELSE [ empty EXCEPT !.deposito = Some(match[2]), !.saldo = Some(match[3]) ]
        ELSE IF n >= 2
        THEN LET tail0      == n >= 3 /\ amounts[n] = 0
                 monto_cand == IF tail0 THEN amounts[n - 2] ELSE amounts[n - 1]
                 saldo_cand == IF tail0 THEN amounts[n - 1] ELSE amounts[n]
                 heur       == classify_amount_checking(monto_cand, current.concept)
                 deposito   == IF Truthy(heur[1]) THEN heur[1] ELSE None
                 retiro     == IF Truthy(heur[2]) THEN heur[2] ELSE None
             IN  [ deposito |-> deposito, retiro |-> retiro,
                   monto_sin_clasificar |->
                       IF ~Truthy(deposito) /\ ~Truthy(retiro) THEN Some(monto_cand) ELSE None,
                   saldo |-> Some(saldo_cand) ]
        ELSE IF n = 1
        THEN [ empty EXCEPT !.monto_sin_clasificar = Some(amounts[1]) ]
        ELSE empty

\* _parse_checking_movements over the pending records: the rows, the last
\* balance carried from one flush to the next
RECURSIVE parse_checking_movements(_, _)
parse_checking_movements(currents, last_saldo) ==
    IF currents = << >> THEN << >>
    ELSE LET row == checking_flush(Head(currents), last_saldo)
         IN  << row >> \o parse_checking_movements(Tail(currents),
                              IF row.saldo # None THEN row.saldo ELSE last_saldo)

NzColumns == { "deposito", "retiro", "monto_sin_clasificar", "saldo" }

\* pd.DataFrame(movements): in a column that holds a number, a missing value
\* becomes NaN; a column of None only keeps its None
NzDataFrame(rows) ==
    [ k \in DOMAIN rows |->
        [ c \in NzColumns |->
            IF rows[k][c] = None /\ \E j \in DOMAIN rows : rows[j][c] # None
            THEN Some(NaN) ELSE rows[k][c] ] ]

\* One iteration of the CHECKING loop of ScotiabankV2Parser.extract_movements
scotia_v2_registro(row) ==
    [ monto |-> IF Truthy(row["deposito"]) THEN row["deposito"][1]
                ELSE IF Truthy(row["retiro"]) THEN row["retiro"][1]
                ELSE IF Truthy(row["monto_sin_clasificar"]) THEN row["monto_sin_clasificar"][1]
                ELSE 0,
      tipo  |-> IF Truthy(row["deposito"]) THEN "Abono"
                ELSE IF Truthy(row["retiro"]) THEN "Cargo" ELSE "Desconocido" ]

NzInit ==
    /\ \/ /\ nz_pc = "debit_in"
          /\ nz_rows \in SeqsUpTo(NzDebitRows, MaxNzRows)
          /\ nz_start = None
       \/ /\ nz_pc = "v2_in"
          /\ nz_rows \in SeqsUpTo(NzCurrents, MaxNzRows)
          /\ nz_start \in { None, Some(100000) }
    /\ nz_out = None

\* ScotiabankDebitParser.extract_movements on the raw rows of the pages
ScotiaDebitExtract ==
    /\ nz_pc = "debit_in"
    /\ nz_out' = Some([ k \in DOMAIN nz_rows |-> scotia_debit_registro(nz_rows[k]) ])
    /\ nz_pc' = "debit"
    /\ UNCHANGED << nz_rows, nz_start >>
    /\ UNCHANGED nz_rest

\* ScotiabankV2Parser.extract_movements of a CHECKING statement
ScotiaV2Extract ==
    /\ nz_pc = "v2_in"
    /\ LET df_raw == NzDataFrame(parse_checking_movements(nz_rows, nz_start))
       IN  nz_out' = Some([ k \in DOMAIN df_raw |-> scotia_v2_registro(df_raw[k]) ])
    /\ nz_pc' = "v2"
    /\ UNCHANGED << nz_rows, nz_start >>
    /\ UNCHANGED nz_rest

InitNormalizer == NzInit /\ nz_alone

NextNormalizer == ScotiaDebitExtract \/ ScotiaV2Extract

SpecNormalizer == InitNormalizer /\ [][NextNormalizer]_vars

----------------------------------------------------------------------------
(* Statement headers: the summary totals read from the text *)

HdBanks == { "BBVA", "BANORTE", "SCOTIABANK" }

\* The summary labels each header parser searches for
HdLabels(bank) ==
    CASE bank = "BBVA"    -> { "Depositos / Abonos (+)", "Retiros / Cargos (-)" }
      [] bank = "BANORTE" -> { "Saldo Anterior", "Pagos y Abonos", "Compras y Cargos",
                               "Saldo Actual" }
      [] OTHER            -> { "Saldo inicial", "(+) Depositos", "(-) Retiros", "Saldofinal" }

\* Amount texts as printed
HdAmountTexts == { "0.00", "15,000.00" }

\* float(txt.replace(",", "")) of an amount text, in cents
HdMoney(txt) == IF txt = "15,000.00" THEN 1500000 ELSE 0

\* re.search of a label followed by an amount: the captured group, or None
HdFind(text, label) == text[label]

\* BBVADebitParser._extract_summary_totals: (deposits, charges)
extract_summary_totals(text) ==
    LET m_dep == HdFind(text, "Depositos / Abonos (+)")
        m_chr == HdFind(text, "Retiros / Cargos (-)")
    IN  [ deposits |-> Some(IF m_dep # None THEN HdMoney(m_dep[1]) ELSE 0),
          charges  |-> Some(IF m_chr # None THEN HdMoney(m_chr[1]) ELSE 0) ]

\* BanorteCreditParser._parse_monto on the result of find: 0.0 for None
banorte_money(val) == IF val = None THEN 0 ELSE HdMoney(val[1])

\* BanorteCreditParser._parse_header, the four balances of the summary
banorte_parse_header(text) ==
    [ saldo_anterior |-> Some(banorte_money(HdFind(text, "Saldo Anterior"))),
      pagos_abonos   |-> Some(banorte_money(HdFind(text, "Pagos y Abonos"))),
      compras_cargos |-> Some(banorte_money(HdFind(text, "Compras y Cargos"))),
      saldo_actual   |-> Some(banorte_money(HdFind(text, "Saldo Actual"))) ]

\* ScotiabankV2Parser._parse_checking_header: a found total is converted, a
\* missing one stays None
checking_money(val) == IF val = None THEN None ELSE Some(HdMoney(val[1]))

parse_checking_header(text) ==
    [ saldo_inicial |-> checking_money(HdFind(text, "Saldo inicial")),
      depositos     |-> checking_money(HdFind(text, "(+) Depositos")),
      retiros       |-> checking_money(HdFind(text, "(-) Retiros")),
      saldo_final   |-> checking_money(HdFind(text, "Saldofinal")) ]

\* The label of the text each header field is read from
HdLabelOf(field) ==
    CASE field = "deposits"       -> "Depositos / Abonos (+)"
      [] field = "charges"        -> "Retiros / Cargos (-)"
      [] field = "saldo_anterior" -> "Saldo Anterior"
      [] field = "pagos_abonos"   -> "Pagos y Abonos"
      [] field = "compras_cargos" -> "Compras y Cargos"
      [] field = "saldo_actual"   -> "Saldo Actual"
      [] field = "saldo_inicial"  -> "Saldo inicial"
      [] field = "depositos"      -> "(+) Depositos"
      [] field = "retiros"        -> "(-) Retiros"
      [] OTHER                    -> "Saldofinal"

HdInit ==
    /\ hd_pc = "text"
    /\ hd_bank \in HdBanks
    /\ hd_text \in [ HdLabels(hd_bank) -> { None } \cup { Some(t) : t \in HdAmountTexts } ]
    /\ hd_header = None

BBVAExtractSummaryTotals ==
    /\ hd_pc = "text" /\ hd_bank = "BBVA"
    /\ hd_header' = Some(extract_summary_totals(hd_text))
    /\ hd_pc' = "extract_summary_totals"
    /\ UNCHANGED << hd_bank, hd_text >>
    /\ UNCHANGED hd_rest

BanorteParseHeader ==
    /\ hd_pc = "text" /\ hd_bank = "BANORTE"
    /\ hd_header' = Some(banorte_parse_header(hd_text))
    /\ hd_pc' = "parse_header"
    /\ UNCHANGED << hd_bank, hd_text >>
    /\ UNCHANGED hd_rest

ScotiaParseCheckingHeader ==
    /\ hd_pc = "text" /\ hd_bank = "SCOTIABANK"
    /\ hd_header' = Some(parse_checking_header(hd_text))
    /\ hd_pc' = "parse_checking_header"
    /\ UNCHANGED << hd_bank, hd_text >>
    /\ UNCHANGED hd_rest

InitHeader == HdInit /\ hd_alone

NextHeader == BBVAExtractSummaryTotals \/ BanorteParseHeader \/ ScotiaParseCheckingHeader

SpecHeader == InitHeader /\ [][NextHeader]_vars

----------------------------------------------------------------------------
(* Format dispatcher: get_parser *)

\* The institution names and section markers get_parser looks for, upper case
GpInstitutions == { "SCOTIABANK", "BBVA", "BANORTE" }

GpSections == { "DISTRIBUCION DE TU ULTIMO PAGO", "COMPRAS Y CARGOS DIFERIDOS",
                "DETALLE DE TUS MOVIMIENTOS", "DETALLE DE MOVIMIENTOS REALIZADOS" }

GpMarkers == GpInstitutions \cup GpSections

\* An extracted text, as the markers found in its first 1000 characters (head)
\* and those found only after them (body)
GpTexts == [ head : SUBSET GpMarkers, body : SUBSET GpMarkers ]

\* `marker in text_upper`
GpIn(marker, text) == marker \in text.head \cup text.body

\* get_parser falling back to a parser when nothing is recognised
get_parser_default(text) ==
    IF \/ GpIn("SCOTIABANK", text)
       \/ GpIn("DISTRIBUCION DE TU ULTIMO PAGO", text)
       \/ GpIn("COMPRAS Y CARGOS DIFERIDOS", text)
       \/ GpIn("DETALLE DE TUS MOVIMIENTOS", text)
    THEN Some("ScotiabankV2Parser")
    ELSE IF GpIn("BBVA", text)
    THEN IF GpIn("DETALLE DE MOVIMIENTOS REALIZADOS", text)
         THEN Some("BBVADebitParser") ELSE Some("BBVACreditParser")
    ELSE Some("BanorteCreditParser")

\* get_parser, the definition in effect (the last one of the module)
get_parser(text) ==
    IF \/ GpIn("SCOTIABANK", text)
       \/ GpIn("DISTRIBUCION DE TU ULTIMO PAGO", text)
       \/ GpIn("COMPRAS Y CARGOS DIFERIDOS", text)
       \/ GpIn("DETALLE DE TUS MOVIMIENTOS", text)
    THEN Some("ScotiabankV2Parser")
    ELSE IF GpIn("BBVA", text)
    THEN IF GpIn("DETALLE DE MOVIMIENTOS REALIZADOS", text)
         THEN Some("BBVADebitParser") ELSE Some("BBVACreditParser")
    ELSE IF GpIn("BANORTE", text) THEN Some("BanorteCreditParser")
    ELSE None

\* The institution a parser class belongs to
GpInstitutionOf(parser) ==
    CASE parser = "ScotiabankV2Parser" -> "SCOTIABANK"
      [] parser \in { "BBVADebitParser", "BBVACreditParser" } -> "BBVA"
      [] OTHER -> "BANORTE"

GpInit ==
    /\ gp_pc = "text"
    /\ gp_text \in GpTexts
    /\ gp_parser = None

GetParser ==
    /\ gp_pc = "text"
    /\ gp_parser' = get_parser(gp_text)
    /\ gp_pc' = "done"
    /\ UNCHANGED gp_text
    /\ UNCHANGED gp_rest

InitDispatcher == GpInit /\ gp_alone

NextDispatcher == GetParser

SpecDispatcher == InitDispatcher /\ [][NextDispatcher]_vars

----------------------------------------------------------------------------
(* Upload flow: POST /upload for one file, DELETE /uploads/{upload_id} *)

\* Bound: rows of the movement set a parser returns
MaxUpRows == 2

UpTexts == { [ head |-> {}, body |-> {} ],
             [ head |-> { "BBVA" }, body |-> {} ] }

\* The manual_parser form field
UpManual == { None, Some("Automatico"), Some("Banorte Credito"), Some("Otro") }

\* PARSERS_MAP.get(name)
PARSERS_MAP(name) ==
    IF name = "Banorte Credito" THEN Some("BanorteCreditParser") ELSE None

\* The month form field (YYYY-MM)
UpMonths == { None, Some("2024-11"), Some("2024-12") }

UpCortes == { None, Some("25-NOV-2024") }

\* Rows of a parsed movement set
UpMovs == { [ monto |-> 10000, tipo |-> "Abono", categoria |-> "Regular" ],
            [ monto |-> 5000,  tipo |-> "Cargo", categoria |-> "Regular" ],
            [ monto |-> 3000,  tipo |-> "Cargo MSI Informativo", categoria |-> "MSI" ] }

\* parser_instance.parse()["movements"]
UpParsed == SeqsUpTo(UpMovs, MaxUpRows)

\* parser_instance.extract_balances(): (saldo_inicial, saldo_final, fecha_corte)
UpBalances ==
    [ saldo_inicial : { None, Some(100000) }, saldo_final : { None, Some(105000) },
      fecha_corte : UpCortes ]

\* validate_month_match(form_month, corte_date_str)
validate_month_match(form_month, corte_date_str) ==
    IF form_month = None \/ corte_date_str = None THEN TRUE
    ELSE LET form_dt == IF form_month[1] = "2024-11" THEN << 2024, 11 >> ELSE << 2024, 12 >>
             corte   == IF corte_date_str[1] = "25-NOV-2024" THEN << 2024, 11 >> ELSE << 0, 0 >>
         IN  form_dt = corte

\* Lines 186-192: the parser instance, None, or "TypeError" when the parsers
\* module does not take the month_context keyword (kw = FALSE)
select_parser(text, manual_parser, kw) ==
    IF manual_parser # None /\ manual_parser[1] # "Automatico"
    THEN LET parser_class == PARSERS_MAP(manual_parser[1])
         IN  IF parser_class = None THEN None
             ELSE IF kw THEN parser_class ELSE Some("TypeError")
    ELSE IF kw THEN get_parser(text) ELSE Some("TypeError")

\* Lines 270-286: the control figures of the response
control_figures(df, saldo_inicial, saldo_final) ==
    IF saldo_inicial # None /\ saldo_final # None
    THEN LET expected_diff == saldo_final[1] - saldo_inicial[1]
             signed(row)   == IF row.tipo = "Abono" THEN row.monto ELSE 0 - row.monto
             sum[k \in 0..Len(df)] == IF k = 0 THEN 0 ELSE sum[k - 1] + signed(df[k])
             actual_diff   == sum[Len(df)]
         IN  [ ok |-> ~(Abs(actual_diff - expected_diff) > 10),
               expected_diff |-> expected_diff, actual_diff |-> actual_diff ]
    ELSE [ ok |-> TRUE, expected_diff |-> 0, actual_diff |-> 0 ]

\* The loop of database.save_movements from row k on (idx = k - 1)
RECURSIVE save_rows(_, _, _, _, _)
save_rows(df, k, upload_id, db, acc) ==
    IF k > Len(df) THEN [ db |-> db, saved_count |-> acc.saved_count,
                          skipped_duplicates |-> acc.skipped, inserted |-> acc.inserted ]
    ELSE LET row == df[k] IN
         IF row.categoria = "MSI"
         THEN LET id == db.seq.msi_movements + 1
              IN  save_rows(df, k + 1, upload_id,
                    [ db EXCEPT !.msi_movements = @ \cup
                                   { [ id |-> id, upload_id |-> upload_id, mov |-> row ] },
                                !.seq.msi_movements = id ],
                    [ acc EXCEPT !.saved_count = @ + 1,
                                 !.inserted = @ \cup { << "msi_movements", id >> } ])
         ELSE IF \E e \in db.movements : e.mov = row /\ e.row_index = k - 1
         THEN save_rows(df, k + 1, upload_id, db,
                    [ acc EXCEPT !.skipped = Append(@, k - 1) ])
         ELSE LET id == db.seq.movements + 1
              IN  save_rows(df, k + 1, upload_id,
                    [ db EXCEPT !.movements = @ \cup
                                   { [ id |-> id, upload_id |-> upload_id,
                                       row_index |-> k - 1, mov |-> row ] },
                                !.seq.movements = id ],
                    [ acc EXCEPT !.saved_count = @ + 1,
                                 !.inserted = @ \cup { << "movements", id >> } ])

\* database.save_movements(df, account_number, bank_name, account_type, upload_id)
save_movements(df, upload_id, db) ==
    save_rows(df, 1, upload_id, db, [ saved_count |-> 0, skipped |-> << >>, inserted |-> {} ])

\* database.save_upload: the uploads table with the new row, and its id
save_upload(db, movement_count) ==
    LET id == db.seq.uploads + 1
    IN  [ db |-> [ db EXCEPT !.uploads = @ \cup { [ id |-> id, movement_count |-> movement_count ] },
                             !.seq.uploads = id ],
          upload_id |-> id ]

\* database.delete_upload(upload_id)
delete_upload(db, upload_id) ==
    [ db EXCEPT !.movements = { e \in @ : e.upload_id # Some(upload_id) },
                !.msi_movements = { e \in @ : e.upload_id # Some(upload_id) },
                !.uploads = { u \in @ : u.id # upload_id } ]

UpError(message) == [ status |-> "error", message |-> message ]

\* Lines 265-333 with the save gated on the control figures
store_statement_checked(df, bal, db, calls) ==
    LET control == control_figures(df, bal.saldo_inicial, bal.saldo_final)
        saved   == save_movements(IF control.ok THEN df ELSE << >>, None, db)
        up      == save_upload(saved.db, saved.saved_count)
    IN  [ db |-> up.db, inserted |-> saved.inserted,
          calls |-> calls \o << [ fn |-> "save_movements",
                                  df |-> IF control.ok THEN df ELSE << >> ],
                                [ fn |-> "save_upload" ] >>,
          result |-> [ status |-> "success", movements_count |-> saved.saved_count,
                       upload_id |-> up.upload_id, control_figures |-> control ] ]

\* Lines 265-333: control figures, save_movements, save_upload, the response
store_statement(df, bal, db, calls) ==
    LET control == control_figures(df, bal.saldo_inicial, bal.saldo_final)
        saved   == save_movements(df, None, db)
        up      == save_upload(saved.db, saved.saved_count)
    IN  [ db |-> up.db, inserted |-> saved.inserted,
          calls |-> calls \o << [ fn |-> "save_movements", df |-> df ],
                                [ fn |-> "save_upload" ] >>,
          result |-> [ status |-> "success", movements_count |-> saved.saved_count,
                       upload_id |-> up.upload_id, control_figures |-> control ] ]

\* The body of the loop of upload_files for one file
upload_file(text, manual_parser, kw, month, df, bal, db) ==
    LET parser_instance == select_parser(text, manual_parser, kw)
        unparsed(msg)   == [ db |-> db, inserted |-> {}, calls |-> << >>, parsed |-> FALSE,
                             parser |-> parser_instance, result |-> UpError(msg) ]
    IN  IF parser_instance = Some("TypeError") THEN unparsed("unexpected keyword argument")
        ELSE IF parser_instance = None THEN unparsed("No parser found")
        ELSE IF month # None /\ bal.fecha_corte # None
                /\ ~validate_month_match(month, bal.fecha_corte)
        THEN [ unparsed("El mes seleccionado no coincide") EXCEPT !.parsed = TRUE ]
        ELSE LET calls == IF bal.saldo_inicial # None \/ bal.saldo_final # None
                          THEN << [ fn |-> "save_balance" ] >> ELSE << >>
                 stored == store_statement(df, bal, db, calls)
             IN  [ db |-> stored.db, inserted |-> stored.inserted, calls |-> stored.calls,
                   parsed |-> TRUE, parser |-> parser_instance, result |-> stored.result ]

UpEmptyDb ==
    [ movements |-> {}, msi_movements |-> {}, uploads |-> {},
      seq |-> [ movements |-> 0, msi_movements |-> 0, uploads |-> 0 ] ]

\* The database is new, or holds one statement stored by an earlier upload
UpInit ==
    /\ up_pc = "ready"
    /\ \E df \in UpParsed :
          LET saved == save_movements(df, None, UpEmptyDb)
              up    == save_upload(saved.db, saved.saved_count)
          IN  \/ up_db = UpEmptyDb /\ up_saved = << >>
              \/ up_db = up.db /\ up_saved = << saved.inserted >>
    /\ up_last = None

\* POST /upload with one file
UploadFile ==
    /\ up_pc = "ready"
    /\ \E text \in UpTexts, manual_parser \in UpManual, kw \in BOOLEAN, month \in UpMonths,
          df \in UpParsed, bal \in UpBalances :
          LET out == upload_file(text, manual_parser, kw, month, df, bal, up_db)
          IN  /\ up_db' = out.db
              /\ up_saved' = IF out.result.status = "success"
                             THEN Append(up_saved, out.inserted) ELSE up_saved
              /\ up_last' = Some([ op |-> "upload", text |-> text, manual_parser |-> manual_parser,
                                   month |-> month, df |-> df, bal |-> bal,
                                   parser |-> out.parser, parsed |-> out.parsed,
                                   calls |-> out.calls, db_before |-> up_db,
                                   result |-> out.result ])
    /\ up_pc' = "uploaded"
    /\ UNCHANGED up_rest

\* DELETE /uploads/{upload_id}
DeleteUploadEndpoint ==
    /\ up_pc = "uploaded"
    /\ \E upload_id \in 1..up_db.seq.uploads :
          /\ up_db' = delete_upload(up_db, upload_id)
          /\ up_last' = Some([ op |-> "delete_upload", upload_id |-> upload_id,
                               db_before |-> up_db ])
    /\ up_pc' = "deleted"
    /\ UNCHANGED up_saved
    /\ UNCHANGED up_rest

InitUpload == UpInit /\ up_alone

NextUpload == UploadFile \/ DeleteUploadEndpoint

SpecUpload == InitUpload /\ [][NextUpload]_vars

----------------------------------------------------------------------------
(* Spatial column extraction: ScotiabankDebitParser, page by page *)

\* Bound: pages per PDF
MaxPages == 2

\* headers_map, in the order of the dict
ClColumns == << "fecha", "concepto", "origen", "deposito", "retiro", "saldo" >>

\* Fewer columns than this and the page is given up
MIN_COLUMNS == 5

\* Right bound of the last column
RIGHT_OPEN == 10000

\* The header word of each column and where it is printed
ClHeaderWord(col) ==
    CASE col = "fecha"    -> [ text |-> "Fecha",    x0 |-> 10,  x1 |-> 40 ]
      [] col = "concepto" -> [ text |-> "Concepto", x0 |-> 100, x1 |-> 150 ]
      [] col = "origen"   -> [ text |-> "Origen",   x0 |-> 200, x1 |-> 240 ]
      [] col = "deposito" -> [ text |-> "Deposito", x0 |-> 300, x1 |-> 350 ]
      [] col = "retiro"   -> [ text |-> "Retiro",   x0 |-> 400, x1 |-> 440 ]
      [] OTHER            -> [ text |-> "Saldo",    x0 |-> 500, x1 |-> 540 ]

\* The keyword lists of headers_map, as the column a word is a keyword of
ClKeywordOf(text) ==
    CASE text = "Fecha"    -> Some("fecha")
      [] text = "Concepto" -> Some("concepto")
      [] text = "Origen"   -> Some("origen")
      [] text = "Deposito" -> Some("deposito")
      [] text = "Retiro"   -> Some("retiro")
      [] text = "Saldo"    -> Some("saldo")
      [] OTHER             -> None

\* Header lines as printed: all six words, or some of them missing
ClHeaderLines ==
    { SelectSeq(ClColumns, LAMBDA c : c \notin missing) :
        missing \in { {}, { "origen" }, { "fecha" }, { "origen", "saldo" },
                      { "fecha", "concepto", "origen", "deposito", "retiro", "saldo" } } }

\* Words of the table body
ClDia  == [ text |-> "24",       x0 |-> 8,   x1 |-> 14 ]
ClMes  == [ text |-> "SEP",      x0 |-> 16,  x1 |-> 26 ]
ClPago == [ text |-> "PAGO",     x0 |-> 140, x1 |-> 160 ]
ClRef  == [ text |-> "REF",      x0 |-> 140, x1 |-> 160 ]
ClDep  == [ text |-> "1,500.00", x0 |-> 290, x1 |-> 330 ]
ClRet  == [ text |-> "250.00",   x0 |-> 395, x1 |-> 425 ]
ClNota == [ text |-> "LAS TASAS DE INTERES ESTAN EXPRESADAS", x0 |-> 8, x1 |-> 300 ]

\* Table bodies: the lines under the header, top to bottom
ClBodies ==
    { << >>,
      << << ClDia, ClMes, ClPago, ClRet >> >>,
      << << ClDia, ClMes, ClPago, ClDep >>, << ClRef >> >>,
      << << ClRef, ClRet >>, << ClDia, ClMes, ClDep >>, << ClNota >>, << ClPago >> >> }

\* A page: whether its text has the title of the table, its header line and body
ClPages == [ title : BOOLEAN, header : ClHeaderLines, body : ClBodies ]

\* The words of a page grouped by line_id: the header line is line 1
ClLines(page) ==
    << [ k \in 1..Len(page.header) |-> ClHeaderWord(page.header[k]) ] >> \o page.body

ClWords(page) ==
    UNION { { [ w |-> ClLines(page)[l][k], line_id |-> l ] : k \in 1..Len(ClLines(page)[l]) } :
            l \in 1..Len(ClLines(page)) }

\* Sum of x0 over a set of words
RECURSIVE ClSumX0(_)
ClSumX0(W) ==
    IF W = {} THEN 0
    ELSE LET e == CHOOSE x \in W : TRUE IN e.w.x0 + ClSumX0(W \ {e})

\* col_x: the mean x0 of the words that are keywords of the column
ClColX(page) ==
    LET cand(col) == { e \in ClWords(page) : ClKeywordOf(e.w.text) = Some(col) }
        found     == { k \in 1..Len(ClColumns) : cand(ClColumns[k]) # {} }
    IN  [ k \in found |-> ClSumX0(cand(ClColumns[k])) \div Cardinality(cand(ClColumns[k])) ]

\* sorted(col_x.items(), key=x): the indices of the columns found, left to right
\* (the sort is stable: equal x keep the order of headers_map)
RECURSIVE ClSorted(_, _)
ClSorted(col_x, todo) ==
    IF todo = {} THEN << >>
    ELSE LET k == CHOOSE a \in todo : \A b \in todo :
                      col_x[a] < col_x[b] \/ (col_x[a] = col_x[b] /\ a <= b)
         IN  << k >> \o ClSorted(col_x, todo \ {k})

\* _obtener_limites_columnas: None when fewer than five columns were found,
\* else the columns left to right with their bounds and the header line.
\* Bounds are kept doubled (left2 = 2 * left), so that a midpoint is an integer.
obtener_limites_columnas(page) ==
    LET col_x == ClColX(page)
        order == ClSorted(col_x, DOMAIN col_x)
        n     == Len(order)
        xs    == [ i \in 1..n |-> col_x[order[i]] ]
        fecha == { e.line_id : e \in { e \in ClWords(page) : e.w.text = "Fecha" } }
    IN  IF Cardinality(DOMAIN col_x) < MIN_COLUMNS THEN None
        ELSE Some([ cols   |-> [ i \in 1..n |-> ClColumns[order[i]] ],
                    left2  |-> [ i \in 1..n |-> IF i = 1 THEN 0 ELSE xs[i - 1] + xs[i] ],
                    right2 |-> [ i \in 1..n |-> IF i = n THEN 2 * RIGHT_OPEN
                                                 ELSE xs[i] + xs[i + 1] ],
                    header_line |-> IF fecha = {} THEN 0
                                    ELSE CHOOSE l \in fecha : \A m \in fecha : l <= m ])

\* _asignar_columna with l < x_center <= r: a token on a boundary goes to the
\* column on its left
asignar_columna_left(x_center2, limites) ==
    LET hits == { i \in 1..Len(limites.cols) :
                    limites.left2[i] < x_center2 /\ x_center2 <= limites.right2[i] }
    IN  IF hits = {} THEN limites.cols[Len(limites.cols)]
        ELSE limites.cols[CHOOSE i \in hits : \A j \in hits : i <= j]

\* _asignar_columna: the first column with l <= x_center < r, else the last one
\* (x_center2 = x0 + x1 is the doubled centre)
asignar_columna(x_center2, limites) ==
    LET hits == { i \in 1..Len(limites.cols) :
                    limites.left2[i] <= x_center2 /\ x_center2 < limites.right2[i] }
    IN  IF hits = {} THEN limites.cols[Len(limites.cols)]
        ELSE limites.cols[CHOOSE i \in hits : \A j \in hits : i <= j]

\* The row of one line: each cell is the sequence of the words joined by " "
ClRow(line, limites) ==
    [ c \in Range(limites.cols) |->
        LET at == SelectSeq(line, LAMBDA w : asignar_columna(w.x0 + w.x1, limites) = c)
        IN  [ k \in 1..Len(at) |-> at[k].text ] ]

\* filas_raw with the line of the notes block passed over and the lines after
\* it read as rows
RECURSIVE ClFilasRawPastNota(_, _, _)
ClFilasRawPastNota(lines, l, limites) ==
    IF l > Len(lines) THEN << >>
    ELSE IF l <= limites.header_line THEN ClFilasRawPastNota(lines, l + 1, limites)
    ELSE IF \E k \in 1..Len(lines[l]) : lines[l][k].text = ClNota.text
        THEN ClFilasRawPastNota(lines, l + 1, limites)
    ELSE IF lines[l] = << >> THEN ClFilasRawPastNota(lines, l + 1, limites)
    ELSE << ClRow(lines[l], limites) >> \o ClFilasRawPastNota(lines, l + 1, limites)

\* Step 4 of _extraer_movimientos_pagina: filas_raw of the lines under the
\* header, up to the line of the notes block; lines without words are dropped
RECURSIVE ClFilasRaw(_, _, _)
ClFilasRaw(lines, l, limites) ==
    IF l > Len(lines) THEN << >>
    ELSE IF l <= limites.header_line THEN ClFilasRaw(lines, l + 1, limites)
    ELSE IF \E k \in 1..Len(lines[l]) : lines[l][k].text = ClNota.text THEN << >>
    ELSE IF lines[l] = << >> THEN ClFilasRaw(lines, l + 1, limites)
    ELSE << ClRow(lines[l], limites) >> \o ClFilasRaw(lines, l + 1, limites)

\* fecha_regex: one or two digits, blanks, three capital letters
ClIsFecha(cell) == cell = << "24", "SEP" >>

\* row.get(col) or "": the cell, empty when the column was not detected
ClGet(row, col) == IF col \in DOMAIN row THEN row[col] ELSE << >>

\* extra in text, on whole words
ClContains(text, extra) ==
    \E i \in 0..(Len(text) - Len(extra)) : SubSeq(text, i + 1, i + Len(extra)) = extra

\* The continuation branch: the cells of row are appended to those of last
ClJoin(last, row) ==
    [ c \in DOMAIN last \cup { c \in DOMAIN row : row[c] # << >> } |->
        LET extra == ClGet(row, c)
        IN  IF extra = << >> THEN last[c]
            ELSE IF c \in { "concepto", "origen" } THEN ClGet(last, c) \o extra
            ELSE IF c \in { "deposito", "retiro", "saldo" }
                    /\ ~ ClContains(ClGet(last, c), extra) THEN ClGet(last, c) \o extra
            ELSE ClGet(last, c) ]

\* Step 5: a row with a date opens a movement, any other row continues the last
RECURSIVE ClUnir(_, _, _)
ClUnir(filas_raw, k, movimientos) ==
    IF k > Len(filas_raw) THEN movimientos
    ELSE LET row == filas_raw[k]
             n   == Len(movimientos)
         IN  IF ClIsFecha(ClGet(row, "fecha"))
                 THEN ClUnir(filas_raw, k + 1, Append(movimientos, row))
             ELSE IF n = 0 THEN ClUnir(filas_raw, k + 1, movimientos)
             ELSE ClUnir(filas_raw, k + 1,
                         [ movimientos EXCEPT ![n] = ClJoin(movimientos[n], row) ])

\* _extraer_movimientos_pagina
extraer_movimientos_pagina(page) ==
    LET limites   == obtener_limites_columnas(page)
        filas_raw == ClFilasRaw(ClLines(page), 1, limites[1])
    IN  IF ~ page.title \/ ClWords(page) = {} \/ limites = None
            THEN [ limites |-> None, filas_raw |-> << >>, movimientos |-> << >> ]
        ELSE [ limites |-> limites, filas_raw |-> filas_raw,
               movimientos |-> ClUnir(filas_raw, 1, << >>) ]

ClInit ==
    /\ cl_pages \in SeqsUpTo(ClPages, MaxPages)
    /\ cl_pos = 1
    /\ cl_filas = << >>
    /\ cl_movimientos = << >>

\* One turn of the loop over pdf.pages, on a page that is not of movements
PageWithoutTable ==
    /\ cl_pos \in 1..Len(cl_pages)
    /\ ~ cl_pages[cl_pos].title \/ ClWords(cl_pages[cl_pos]) = {}
    /\ cl_filas' = Append(cl_filas, extraer_movimientos_pagina(cl_pages[cl_pos]))
    /\ cl_movimientos' = cl_movimientos \o extraer_movimientos_pagina(cl_pages[cl_pos]).movimientos
    /\ cl_pos' = cl_pos + 1
    /\ UNCHANGED cl_pages
    /\ UNCHANGED cl_rest

\* A page without columns that ends the extraction, as the RuntimeError of
\* debito_scotia.py does
PageWithoutColumnsAborts ==
    /\ cl_pos \in 1..Len(cl_pages)
    /\ cl_pages[cl_pos].title /\ ClWords(cl_pages[cl_pos]) # {}
    /\ obtener_limites_columnas(cl_pages[cl_pos]) = None
    /\ cl_filas' = Append(cl_filas, extraer_movimientos_pagina(cl_pages[cl_pos]))
    /\ cl_movimientos' = cl_movimientos
    /\ cl_pos' = Len(cl_pages) + 1
    /\ UNCHANGED cl_pages
    /\ UNCHANGED cl_rest

\* One turn of the loop, on a page whose columns were not detected
PageWithoutColumns ==
    /\ cl_pos \in 1..Len(cl_pages)
    /\ cl_pages[cl_pos].title /\ ClWords(cl_pages[cl_pos]) # {}
    /\ obtener_limites_columnas(cl_pages[cl_pos]) = None
    /\ cl_filas' = Append(cl_filas, extraer_movimientos_pagina(cl_pages[cl_pos]))
    /\ cl_movimientos' = cl_movimientos \o extraer_movimientos_pagina(cl_pages[cl_pos]).movimientos
    /\ cl_pos' = cl_pos + 1
    /\ UNCHANGED cl_pages
    /\ UNCHANGED cl_rest

\* One turn of the loop, on a page whose table is read
PageWithTable ==
    /\ cl_pos \in 1..Len(cl_pages)
    /\ cl_pages[cl_pos].title /\ ClWords(cl_pages[cl_pos]) # {}
    /\ obtener_limites_columnas(cl_pages[cl_pos]) # None
    /\ cl_filas' = Append(cl_filas, extraer_movimientos_pagina(cl_pages[cl_pos]))
    /\ cl_movimientos' = cl_movimientos \o extraer_movimientos_pagina(cl_pages[cl_pos]).movimientos
    /\ cl_pos' = cl_pos + 1
    /\ UNCHANGED cl_pages
    /\ UNCHANGED cl_rest

InitColumns == ClInit /\ cl_alone

NextColumns == PageWithoutTable \/ PageWithoutColumns \/ PageWithTable

SpecColumns == InitColumns /\ [][NextColumns]_vars

----------------------------------------------------------------------------
(* Credit card statements: the installment (MSI) and regular sections of   *)
(* BBVACreditParser, ScotiabankCreditParser and BanorteCreditParser         *)

\* Bound: lines of a statement text
MaxMsLines == 3

MsBlank == [ kind |-> "", orig |-> "", saldo |-> "", pago |-> "", num |-> "", signo |-> "" ]

\* Lines of a credit statement: the two section titles, a totals line, an
\* installment row on one line ("12/12" or "1 de 3" as payment number), an
\* installment row on two lines (date and description, then the amounts) and a
\* regular row
MsLineShapes ==
    { [ MsBlank EXCEPT !.kind = "msi_title" ],
      [ MsBlank EXCEPT !.kind = "reg_title" ],
      [ MsBlank EXCEPT !.kind = "total" ],
      [ kind |-> "msi_row", orig |-> "8,612.56", saldo |-> "0.00", pago |-> "717.75",
        num |-> "12/12", signo |-> "" ],
      [ kind |-> "msi_row", orig |-> "699.00", saldo |-> "466.00", pago |-> "233.00",
        num |-> "1 de 3", signo |-> "" ],
      [ MsBlank EXCEPT !.kind = "msi_head" ],
      [ kind |-> "msi_tail", orig |-> "699.00", saldo |-> "466.00", pago |-> "233.00",
        num |-> "1/3", signo |-> "" ],
      [ MsBlank EXCEPT !.kind = "regular", !.pago = "13.00", !.signo = "+" ] }

\* _parse_monto of an amount text, in cents
MsMoney(txt) ==
    CASE txt = "8,612.56" -> 861256
      [] txt = "717.75"   -> 71775
      [] txt = "699.00"   -> 69900
      [] txt = "466.00"   -> 46600
      [] txt = "233.00"   -> 23300
      [] txt = "13.00"    -> 1300
      [] OTHER            -> 0

\* FECHA_LINE_PATTERN and the like: the line begins with a date
MsDated(line) == line.kind \in { "msi_row", "msi_head", "regular" }

\* "$" in linea
MsHasDollar(line) == line.kind \in { "msi_row", "msi_tail", "regular" }

\* BBVACreditParser.MSI_PATTERN.match: date, three amounts, "6 de 18", rate
bbva_msi_match(line) == line.kind = "msi_row" /\ line.num = "1 de 3"

\* ScotiabankCreditParser.MSI_TAIL_PATTERN.search: three amounts, "1/12", rate
scotia_msi_tail_search(line) ==
    line.kind \in { "msi_row", "msi_tail" } /\ line.num \in { "12/12", "1/3" }

\* BanorteCreditParser.MSI_PATTERN.match: date, three amounts, "12/12", rate
banorte_msi_match(line) == line.kind = "msi_row" /\ line.num = "12/12"

\* The record of an installment row as the BBVA and Scotiabank parsers build
\* it; linea is the line it was read from
credit_msi_registro(line, k) ==
    [ monto |-> MsMoney(line.pago), tipo |-> "Cargo", categoria |-> "MSI",
      meta_monto_original |-> Some(MsMoney(line.orig)),
      meta_saldo_pendiente |-> Some(MsMoney(line.saldo)), linea |-> k ]

\* The record of an installment row with the original principal as its amount
banorte_msi_registro_principal(line, k) ==
    [ monto |-> MsMoney(line.orig), tipo |-> "Cargo MSI Informativo", categoria |-> "MSI",
      meta_monto_original |-> Some(MsMoney(line.orig)),
      meta_saldo_pendiente |-> Some(MsMoney(line.saldo)), linea |-> k ]

\* The record BanorteCreditParser._parse_msi_section builds
banorte_msi_registro(line, k) ==
    [ monto |-> MsMoney(line.pago), tipo |-> "Cargo MSI Informativo", categoria |-> "MSI",
      meta_monto_original |-> Some(MsMoney(line.orig)),
      meta_saldo_pendiente |-> Some(MsMoney(line.saldo)), linea |-> k ]

\* The record of a regular row of the BBVA and Scotiabank parsers
credit_regular_registro(line, k) ==
    [ monto |-> MsMoney(line.pago), tipo |-> IF line.signo = "-" THEN "Abono" ELSE "Cargo",
      categoria |-> "Regular", meta_monto_original |-> None,
      meta_saldo_pendiente |-> None, linea |-> k ]

\* BBVACreditParser.extract_movements from line k on
RECURSIVE bbva_credit_scan(_, _, _, _, _)
bbva_credit_scan(lines, k, en_msi, en_regulares, regs) ==
    IF k > Len(lines) THEN regs
    ELSE LET linea == lines[k] IN
         IF linea.kind = "msi_title" THEN bbva_credit_scan(lines, k + 1, TRUE, FALSE, regs)
         ELSE IF linea.kind = "reg_title"
              THEN bbva_credit_scan(lines, k + 1, FALSE, TRUE, regs)
         ELSE IF linea.kind = "total"
              THEN bbva_credit_scan(lines, k + 1, FALSE, FALSE, regs)
         ELSE IF en_msi
              THEN bbva_credit_scan(lines, k + 1, en_msi, en_regulares,
                       IF bbva_msi_match(linea)
                       THEN Append(regs, credit_msi_registro(linea, k)) ELSE regs)
         ELSE IF en_regulares
              THEN bbva_credit_scan(lines, k + 1, en_msi, en_regulares,
                       IF linea.kind = "regular"
                       THEN Append(regs, credit_regular_registro(linea, k))
                       ELSE regs)
         ELSE bbva_credit_scan(lines, k + 1, en_msi, en_regulares, regs)

\* ScotiabankCreditParser.extract_movements from line k on; pendiente_msi is
\* TRUE while a dated line waits for its line of amounts
RECURSIVE scotia_credit_scan(_, _, _, _, _, _)
scotia_credit_scan(lines, k, en_msi, en_regulares, pendiente_msi, regs) ==
    IF k > Len(lines) THEN regs
    ELSE LET linea == lines[k] IN
         IF linea.kind = "msi_title"
             THEN scotia_credit_scan(lines, k + 1, TRUE, FALSE, FALSE, regs)
         ELSE IF linea.kind = "reg_title"
             THEN scotia_credit_scan(lines, k + 1, FALSE, TRUE, FALSE, regs)
         ELSE IF linea.kind = "total"
             THEN scotia_credit_scan(lines, k + 1, FALSE, FALSE, FALSE, regs)
         ELSE IF en_msi
             THEN IF MsDated(linea)
                  THEN IF MsHasDollar(linea) /\ scotia_msi_tail_search(linea)
                       THEN scotia_credit_scan(lines, k + 1, en_msi, en_regulares, FALSE,
                                Append(regs, credit_msi_registro(linea, k)))
                       ELSE scotia_credit_scan(lines, k + 1, en_msi, en_regulares, TRUE,
                                regs)
                  ELSE IF pendiente_msi /\ MsHasDollar(linea) /\ scotia_msi_tail_search(linea)
                       THEN scotia_credit_scan(lines, k + 1, en_msi, en_regulares, FALSE,
                                Append(regs, credit_msi_registro(linea, k)))
                       ELSE scotia_credit_scan(lines, k + 1, en_msi, en_regulares,
                                pendiente_msi, regs)
         ELSE IF en_regulares
             THEN scotia_credit_scan(lines, k + 1, en_msi, en_regulares, pendiente_msi,
                      IF linea.kind = "regular"
                      THEN Append(regs, credit_regular_registro(linea, k))
                      ELSE regs)
         ELSE scotia_credit_scan(lines, k + 1, en_msi, en_regulares, pendiente_msi, regs)

\* BanorteCreditParser._parse_msi_section over the buffered lines (their indices)
RECURSIVE parse_msi_section(_, _)
parse_msi_section(lines, buffer_sec) ==
    IF buffer_sec = << >> THEN << >>
    ELSE (IF banorte_msi_match(lines[Head(buffer_sec)])
          THEN << banorte_msi_registro(lines[Head(buffer_sec)], Head(buffer_sec)) >>
          ELSE << >>) \o parse_msi_section(lines, Tail(buffer_sec))

\* A line as _parse_regular_section sees it: its whitespace-separated tokens
MsTokens(line) ==
    IF line.kind = "regular" THEN << "24-NOV-2025", "25-NOV-2025", "COMPRA", "+$13.00" >>
    ELSE IF MsDated(line) THEN << "25-NOV-2025", "NOTA" >>
    ELSE << "Transferencia" >>

\* BanorteCreditParser._parse_regular_section over the buffered lines
RECURSIVE parse_regular_section(_, _, _, _)
parse_regular_section(lines, buffer_sec, cur, regs) ==
    IF buffer_sec = << >> THEN flush_mov(cur, regs)
    ELSE LET line == MsTokens(lines[Head(buffer_sec)]) IN
         IF IsRegularStart(line)
             THEN parse_regular_section(lines, Tail(buffer_sec), Some(start_mov(line)),
                                        flush_mov(cur, regs))
         ELSE IF cur # None
             THEN parse_regular_section(lines, Tail(buffer_sec),
                                        Some(continue_mov(cur[1], line)), regs)
         ELSE parse_regular_section(lines, Tail(buffer_sec), cur, regs)

\* The rows of a regular section with the columns of the frame
MsRegular(regs) ==
    [ i \in 1..Len(regs) |->
        [ monto |-> regs[i].monto, tipo |-> regs[i].tipo, categoria |-> regs[i].categoria,
          meta_monto_original |-> None, meta_saldo_pendiente |-> None, linea |-> 0 ] ]

\* flush_section of BanorteCreditParser.extract_movements
flush_section(lines, en_msi, en_reg, buffer_sec) ==
    IF en_msi THEN parse_msi_section(lines, buffer_sec)
    ELSE IF en_reg THEN MsRegular(parse_regular_section(lines, buffer_sec, None, << >>))
    ELSE << >>

\* BanorteCreditParser.extract_movements from line k on
RECURSIVE banorte_credit_scan(_, _, _, _, _, _)
banorte_credit_scan(lines, k, en_msi, en_reg, buffer_sec, regs) ==
    IF k > Len(lines) THEN regs \o flush_section(lines, en_msi, en_reg, buffer_sec)
    ELSE LET l == lines[k] IN
         IF l.kind = "msi_title"
             THEN banorte_credit_scan(lines, k + 1, TRUE, FALSE, << >>,
                      regs \o flush_section(lines, en_msi, en_reg, buffer_sec))
         ELSE IF l.kind = "reg_title"
             THEN banorte_credit_scan(lines, k + 1, FALSE, TRUE, << >>,
                      regs \o flush_section(lines, en_msi, en_reg, buffer_sec))
         ELSE IF l.kind = "total"
             THEN banorte_credit_scan(lines, k + 1, FALSE, FALSE, << >>,
                      regs \o flush_section(lines, en_msi, en_reg, buffer_sec))
         ELSE banorte_credit_scan(lines, k + 1, en_msi, en_reg,
                      IF en_msi \/ en_reg THEN Append(buffer_sec, k) ELSE buffer_sec,
                      regs)

MsInit ==
    /\ ms_pc = "ready"
    /\ ms_lines \in SeqsUpTo(MsLineShapes, MaxMsLines)
    /\ ms_out = None

\* BBVACreditParser.extract_movements
BBVACreditExtract ==
    /\ ms_pc = "ready"
    /\ ms_out' = Some([ parser |-> "BBVACreditParser",
                        movements |-> bbva_credit_scan(ms_lines, 1, FALSE, FALSE, << >>) ])
    /\ ms_pc' = "done"
    /\ UNCHANGED ms_lines
    /\ UNCHANGED ms_rest

\* ScotiabankCreditParser.extract_movements
ScotiaCreditExtract ==
    /\ ms_pc = "ready"
    /\ ms_out' = Some([ parser |-> "ScotiabankCreditParser",
                        movements |-> scotia_credit_scan(ms_lines, 1, FALSE, FALSE, FALSE, << >>) ])
    /\ ms_pc' = "done"
    /\ UNCHANGED ms_lines
    /\ UNCHANGED ms_rest

\* BanorteCreditParser.extract_movements
BanorteCreditExtract ==
    /\ ms_pc = "ready"
    /\ ms_out' = Some([ parser |-> "BanorteCreditParser",
                        movements |-> banorte_credit_scan(ms_lines, 1, FALSE, FALSE, << >>, << >>) ])
    /\ ms_pc' = "done"
    /\ UNCHANGED ms_lines
    /\ UNCHANGED ms_rest

InitCredit == MsInit /\ ms_alone

NextCredit == BBVACreditExtract \/ ScotiaCreditExtract \/ BanorteCreditExtract

SpecCredit == InitCredit /\ [][NextCredit]_vars

----------------------------------------------------------------------------
(* The loops over the lines of the three credit card parsers, line by line *)

\* The locals of extract_movements before the loop
SxStart ==
    [ en_msi |-> FALSE, en_regulares |-> FALSE, pendiente_msi |-> FALSE,
      buffer_sec |-> << >>, regs |-> << >> ]

\* The loop body of BBVACreditParser.extract_movements with a regular title
\* that leaves the installment flag as it is
bbva_credit_step_keeps_msi(st, lines, k) ==
    LET linea == lines[k] IN
    IF linea.kind = "msi_title" THEN [ st EXCEPT !.en_msi = TRUE, !.en_regulares = FALSE ]
    ELSE IF linea.kind = "reg_title" THEN [ st EXCEPT !.en_regulares = TRUE ]
    ELSE IF linea.kind = "total" THEN [ st EXCEPT !.en_msi = FALSE, !.en_regulares = FALSE ]
    ELSE IF st.en_msi
         THEN IF bbva_msi_match(linea)
              THEN [ st EXCEPT !.regs = Append(@, credit_msi_registro(linea, k)) ] ELSE st
    ELSE IF st.en_regulares
         THEN IF linea.kind = "regular"
              THEN [ st EXCEPT !.regs = Append(@, credit_regular_registro(linea, k)) ] ELSE st
    ELSE st

\* The loop body of BBVACreditParser.extract_movements on line k
bbva_credit_step(st, lines, k) ==
    LET linea == lines[k] IN
    IF linea.kind = "msi_title" THEN [ st EXCEPT !.en_msi = TRUE, !.en_regulares = FALSE ]
    ELSE IF linea.kind = "reg_title" THEN [ st EXCEPT !.en_regulares = TRUE, !.en_msi = FALSE ]
    ELSE IF linea.kind = "total" THEN [ st EXCEPT !.en_msi = FALSE, !.en_regulares = FALSE ]
    ELSE IF st.en_msi
         THEN IF bbva_msi_match(linea)
              THEN [ st EXCEPT !.regs = Append(@, credit_msi_registro(linea, k)) ] ELSE st
    ELSE IF st.en_regulares
         THEN IF linea.kind = "regular"
              THEN [ st EXCEPT !.regs = Append(@, credit_regular_registro(linea, k)) ] ELSE st
    ELSE st

\* The loop body of ScotiabankCreditParser.extract_movements on line k
scotia_credit_step(st, lines, k) ==
    LET linea == lines[k] IN
    IF linea.kind = "msi_title"
        THEN [ st EXCEPT !.en_msi = TRUE, !.en_regulares = FALSE, !.pendiente_msi = FALSE ]
    ELSE IF linea.kind = "reg_title"
        THEN [ st EXCEPT !.en_regulares = TRUE, !.en_msi = FALSE, !.pendiente_msi = FALSE ]
    ELSE IF linea.kind = "total"
        THEN [ st EXCEPT !.en_msi = FALSE, !.en_regulares = FALSE, !.pendiente_msi = FALSE ]
    ELSE IF st.en_msi
        THEN IF MsDated(linea)
             THEN IF MsHasDollar(linea) /\ scotia_msi_tail_search(linea)
                  THEN [ st EXCEPT !.regs = Append(@, credit_msi_registro(linea, k)),
                                   !.pendiente_msi = FALSE ]
                  ELSE [ st EXCEPT !.pendiente_msi = TRUE ]
             ELSE IF st.pendiente_msi /\ MsHasDollar(linea) /\ scotia_msi_tail_search(linea)
                  THEN [ st EXCEPT !.regs = Append(@, credit_msi_registro(linea, k)),
                                   !.pendiente_msi = FALSE ]
                  ELSE st
    ELSE IF st.en_regulares
        THEN IF linea.kind = "regular"
             THEN [ st EXCEPT !.regs = Append(@, credit_regular_registro(linea, k)) ] ELSE st
    ELSE st

\* The loop body of BanorteCreditParser.extract_movements on line k
banorte_credit_step(st, lines, k) ==
    LET l == lines[k]
        flushed == st.regs \o flush_section(lines, st.en_msi, st.en_regulares, st.buffer_sec)
    IN  IF l.kind = "msi_title"
            THEN [ st EXCEPT !.regs = flushed, !.buffer_sec = << >>,
                             !.en_msi = TRUE, !.en_regulares = FALSE ]
        ELSE IF l.kind = "reg_title"
            THEN [ st EXCEPT !.regs = flushed, !.buffer_sec = << >>,
                             !.en_msi = FALSE, !.en_regulares = TRUE ]
        ELSE IF l.kind = "total"
            THEN [ st EXCEPT !.regs = flushed, !.buffer_sec = << >>,
                             !.en_msi = FALSE, !.en_regulares = FALSE ]
        ELSE IF st.en_msi \/ st.en_regulares
            THEN [ st EXCEPT !.buffer_sec = Append(@, k) ]
        ELSE st

SxInit ==
    /\ sx_parser \in { "BBVACreditParser", "ScotiabankCreditParser", "BanorteCreditParser" }
    /\ sx_lines \in SeqsUpTo(MsLineShapes, MaxMsLines)
    /\ sx_pos = 1
    /\ sx_st = SxStart

\* One turn of the loop of BBVACreditParser.extract_movements
BBVACreditLine ==
    /\ sx_parser = "BBVACreditParser"
    /\ sx_pos \in 1..Len(sx_lines)
    /\ sx_st' = bbva_credit_step(sx_st, sx_lines, sx_pos)
    /\ sx_pos' = sx_pos + 1
    /\ UNCHANGED << sx_parser, sx_lines >>
    /\ UNCHANGED sx_rest

\* One turn of the loop of ScotiabankCreditParser.extract_movements
ScotiaCreditLine ==
    /\ sx_parser = "ScotiabankCreditParser"
    /\ sx_pos \in 1..Len(sx_lines)
    /\ sx_st' = scotia_credit_step(sx_st, sx_lines, sx_pos)
    /\ sx_pos' = sx_pos + 1
    /\ UNCHANGED << sx_parser, sx_lines >>
    /\ UNCHANGED sx_rest

\* One turn of the loop of BanorteCreditParser.extract_movements
BanorteCreditLine ==
    /\ sx_parser = "BanorteCreditParser"
    /\ sx_pos \in 1..Len(sx_lines)
    /\ sx_st' = banorte_credit_step(sx_st, sx_lines, sx_pos)
    /\ sx_pos' = sx_pos + 1
    /\ UNCHANGED << sx_parser, sx_lines >>
    /\ UNCHANGED sx_rest

\* flush_section() after the loop of BanorteCreditParser.extract_movements
BanorteFlushFinal ==
    /\ sx_parser = "BanorteCreditParser"
    /\ sx_pos = Len(sx_lines) + 1
    /\ sx_st' = [ sx_st EXCEPT !.regs = @ \o flush_section(sx_lines, sx_st.en_msi,
                                                            sx_st.en_regulares, sx_st.buffer_sec),
                               !.buffer_sec = << >> ]
    /\ sx_pos' = sx_pos + 1
    /\ UNCHANGED << sx_parser, sx_lines >>
    /\ UNCHANGED sx_rest

InitSections == SxInit /\ sx_alone

NextSections == BBVACreditLine \/ ScotiaCreditLine \/ BanorteCreditLine \/ BanorteFlushFinal

SpecSections == InitSections /\ [][NextSections]_vars

----------------------------------------------------------------------------
(* The document-level result of BanorteCreditParser *)

\* BanorteCreditParser.parse on a text whose regular section gave the rows df
\* and whose summary prints the labels of header_text
banorte_parse(header_text, df) ==
    LET header == banorte_parse_header(header_text)
    IN  [ account_number |-> "BANORTE-CREDIT-UNKNOWN",
          movements |-> df,
          metadata |-> [ account_type |-> "TDC",
                         header |-> header,
                         validation |->
                           [ sum_cargos_df |-> SumTipo(df, "Cargo"),
                             sum_abonos_df |-> SumTipo(df, "Abono"),
                             resumen_cargos |-> header.compras_cargos[1],
                             resumen_abonos |-> header.pagos_abonos[1] ] ] ]

----------------------------------------------------------------------------
(* The balances table of database.py under save_balance.  The table is     *)
(* UNIQUE(account_number, bank, account_type, month); in SQLite two rows   *)
(* conflict on a UNIQUE index only when every indexed column is equal and  *)
(* not NULL.  POST /upload passes month as the form sent it, None when the *)
(* field is absent.                                                        *)

\* Bound: save_balance calls in a run
MaxSaves == 3

AnKeyColumns == { "account_number", "bank", "account_type", "month" }

\* The arguments of a save_balance call
AnCalls ==
    [ account_number : { Some("1234") },
      bank           : { Some("BBVA") },
      account_type   : { Some("Débito"), Some("Crédito") },
      month          : { None, Some("2025-01") },
      saldo_inicial  : { Some(100000) },
      saldo_final    : { Some(120000), Some(130000) },
      fecha_corte    : { None, Some("05-ene-2025") } ]

\* ON CONFLICT(account_number, bank, account_type, month): the stored row the
\* insert of c collides with, 0 when there is none
an_conflict(rows, c) ==
    LET hit == { i \in DOMAIN rows :
                   \A col \in AnKeyColumns : rows[i][col] # None /\ rows[i][col] = c[col] }
    IN  IF hit = {} THEN 0 ELSE CHOOSE i \in hit : TRUE

\* save_balance: INSERT ... ON CONFLICT DO UPDATE SET saldo_inicial,
\* saldo_final, fecha_corte
save_balance(rows, c) ==
    LET i == an_conflict(rows, c)
    IN  IF i = 0 THEN Append(rows, c)
        ELSE [ rows EXCEPT ![i] = [ @ EXCEPT !.saldo_inicial = c.saldo_inicial,
                                             !.saldo_final   = c.saldo_final,
                                             !.fecha_corte   = c.fecha_corte ] ]

AnInit ==
    /\ an_pc = "db"
    /\ an_rows = << >>
    /\ an_calls = << >>

\* One call of save_balance
SaveBalanceCall ==
    /\ an_pc = "db"
    /\ Len(an_calls) < MaxSaves
    /\ \E c \in AnCalls :
          /\ an_rows' = save_balance(an_rows, c)
          /\ an_calls' = Append(an_calls, c)
    /\ UNCHANGED an_pc
    /\ UNCHANGED an_rest

InitAnchors == AnInit /\ an_alone

NextAnchors == SaveBalanceCall

SpecAnchors == InitAnchors /\ [][NextAnchors]_vars

----------------------------------------------------------------------------
(* Claims on the reconciliation validators *)

\* The header reports every figure
RvHeaderComplete ==
    /\ rv_header.previous # None /\ rv_header.credits # None
    /\ rv_header.debits # None /\ rv_header.final # None

\* final = previous + credits - debits exactly, and the movement sums equal the
\* header's totals
RvIdentityHolds ==
    /\ RvHeaderComplete
    /\ rv_header.final[1] = rv_header.previous[1] + rv_header.credits[1] - rv_header.debits[1]
    /\ SumTipo(rv_movs, "Abono") = rv_header.credits[1]
    /\ SumTipo(rv_movs, "Cargo") = rv_header.debits[1]

\* C1: when the header satisfies final = previous + credits - debits exactly and
\* the Credit and Debit sums of the movements equal the header's totals, the
\* report has all three match flags true (valid) and zero differences.
C1_AccountingIdentity ==
    /\ (rv_pc = "validate_balance" /\ RvIdentityHolds) =>
          /\ rv_report.status = "ok"
          /\ rv_report.valid
          /\ rv_report.balance_match /\ rv_report.income_match /\ rv_report.expenses_match
          /\ rv_report.diff = 0
    /\ (rv_pc = "validation_report_checking" /\ RvIdentityHolds) =>
          /\ rv_report.depositos_ok /\ rv_report.retiros_ok
          /\ rv_report.saldo_final_calc_ok
          /\ rv_report.diff_dep = 0 /\ rv_report.diff_ret = 0

\* The end-to-end scenario of the spec has been validated
C1_Witness ==
    /\ rv_pc = "validate_balance"
    /\ rv_header = [ previous |-> Some(100000), credits |-> Some(50000),
                     debits |-> Some(30000), final |-> Some(120000) ]
    /\ rv_movs = << [ tipo |-> "Abono", monto |-> 50000 ],
                    [ tipo |-> "Cargo", monto |-> 30000 ] >>
    /\ rv_report.valid

\* The distance between the header's final balance and the expected one
RvFinalOff ==
    Abs(OrZero(rv_header.previous) + OrZero(rv_header.credits)
        - OrZero(rv_header.debits) - OrZero(rv_header.final))

\* C2: a final balance off by exactly the tolerance passes the balance check,
\* one off by the tolerance plus one cent fails it.
C2_ToleranceBoundary ==
    /\ (rv_pc = "validate_balance" /\ rv_report.status = "ok") =>
          /\ (RvFinalOff = TOL_VALIDATE_BALANCE => rv_report.balance_match)
          /\ (RvFinalOff = TOL_VALIDATE_BALANCE + 1 => ~rv_report.balance_match)
    /\ rv_pc = "validation_report_checking" =>
          /\ (RvFinalOff = TOL_CHECKING => rv_report.saldo_final_calc_ok)
          /\ (RvFinalOff = TOL_CHECKING + 1 => ~rv_report.saldo_final_calc_ok)

\* C3 as claimed: the expected final balance is previous + (sum of the Credit
\* movements) - (sum of the Debit movements).
C3_ExpectedFinalFromMovements ==
    (rv_pc = "validate_balance" /\ rv_report.status = "ok") =>
        rv_report.expected_final =
            OrZero(rv_header.previous) + SumTipo(rv_movs, "Abono") - SumTipo(rv_movs, "Cargo")

\* C3 amended: the expected final balance is computed from the header alone,
\* previous + header credits - header debits (previous - payments + charges for
\* the Banorte credit card), whatever the movement set sums to.
C3_ExpectedFinalFromHeader ==
    /\ (rv_pc = "validate_balance" /\ rv_report.status = "ok") =>
          rv_report.expected_final =
              OrZero(rv_header.previous) + OrZero(rv_header.credits) - OrZero(rv_header.debits)
    /\ rv_pc = "validation_report_checking" =>
          (rv_report.saldo_final_calc_ok <=> RvFinalOff <= TOL_CHECKING)
    /\ rv_pc = "validation_report" =>
          rv_report.saldo_calculado_header =
              OrZero(rv_header.previous) - OrZero(rv_header.credits) + OrZero(rv_header.debits)

\* A report whose movement sums differ from the header's totals
C3_Witness ==
    /\ rv_pc = "validate_balance" /\ rv_report.status = "ok"
    /\ rv_report.calc_income # OrZero(rv_header.credits)
    /\ rv_report.calc_expenses # OrZero(rv_header.debits)
    /\ rv_report.expected_final = 120000

----------------------------------------------------------------------------
(* Claims on the combinatorial classifier *)

\* Sum of the candidates at the indices in T, from index i on
RECURSIVE BdSumIn(_, _, _)
BdSumIn(cands, T, i) ==
    IF i > Len(cands) THEN 0
    ELSE (IF i \in T THEN cands[i] ELSE 0) + BdSumIn(cands, T, i + 1)

BdSetSum(cands, T) == BdSumIn(cands, T, 1)

BdIndices == 1..Len(candidatos)

\* The index sets whose amounts sum to the declared deposit total within tolerance
BdMatching ==
    { T \in SUBSET BdIndices :
        Abs(BdSetSum(candidatos, T) - total_depositos_esperado) < TOLERANCE }

\* The candidates the returned frame classifies tipo
BdClassified(tipo) == { i \in BdIndices : bd_out.returned[i].tipo = tipo }

\* C4: whenever some subset of the candidates sums to the declared deposit total
\* within 0.01, the candidates classified Abono sum to the declared total within
\* 0.01, every other candidate is classified Cargo, and the Cargo sum is the sum
\* of all candidates minus the Abono sum.
C4_SubsetSumClassifier ==
    (bd_pc = "done" /\ BdMatching # {}) =>
        /\ bd_out.status = "returned"
        /\ Len(bd_out.returned) = Len(candidatos)
        /\ \A i \in BdIndices : bd_out.returned[i].monto = candidatos[i]
        /\ Abs(BdSetSum(candidatos, BdClassified("Abono")) - total_depositos_esperado)
               < TOLERANCE
        /\ BdClassified("Cargo") = BdIndices \ BdClassified("Abono")
        /\ BdSetSum(candidatos, BdClassified("Cargo"))
               = BdSetSum(candidatos, BdIndices) - BdSetSum(candidatos, BdClassified("Abono"))
        /\ bd_out.calculated_charges = BdSetSum(candidatos, BdClassified("Cargo"))

\* The spec's example: [100, 200, 50, 400, 75] with declared total 300 gives the
\* Abono set {100, 200} and a Cargo sum of 525
C4_Witness ==
    /\ bd_pc = "done"
    /\ candidatos = << 10000, 20000, 5000, 40000, 7500 >>
    /\ total_depositos_esperado = 30000
    /\ BdClassified("Abono") = { 1, 2 }
    /\ bd_out.calculated_charges = 52500

\* S comes before T in the search: it is smaller, or of the same size and first
\* in the lexicographic order of the index tuples
BdBefore(S, T) ==
    \/ Cardinality(S) < Cardinality(T)
    \/ /\ Cardinality(S) = Cardinality(T)
       /\ S # T
       /\ LET D == (S \cup T) \ (S \cap T)
              m == CHOOSE x \in D : \A y \in D : x <= y
          IN  m \in S

\* C5: among the subsets that match the declared total, the one selected is the
\* first in ascending size and, within a size, in lexicographic index order.
C5_FirstMatchSelected ==
    (bd_pc = "done" /\ BdMatching # {}) =>
        LET S == BdClassified("Abono")
        IN  /\ S \in BdMatching
            /\ \A T \in BdMatching : T = S \/ BdBefore(S, T)

\* A search with a larger matching subset and a later one of the selected size
C5_Witness ==
    /\ bd_pc = "done"
    /\ total_depositos_esperado # 0
    /\ \E T \in BdMatching : Cardinality(T) > Cardinality(BdClassified("Abono"))
    /\ \E T \in BdMatching : /\ T # BdClassified("Abono")
                             /\ Cardinality(T) = Cardinality(BdClassified("Abono"))
    /\ Cardinality(BdClassified("Abono")) >= 2

\* What the caller receives for the same candidates when the match succeeds
\* with no deposit at all (declared total 0)
BdMatchedNoDeposits ==
    extract_movements_bbva(candidatos, 0, total_retiros_esperado).returned

\* C6: when no subset sums to the declared total, extraction does not raise,
\* every candidate is classified Cargo, and the result handed back is flagged
\* unverified: it differs from the result of a successful match.
C6_NoSolutionFlagged ==
    (bd_pc = "done" /\ BdMatching = {}) =>
        /\ bd_out.status = "returned"
        /\ BdClassified("Cargo") = BdIndices
        /\ bd_out.returned # BdMatchedNoDeposits

\* The size of the largest subsets the search went through: none when the
\* declared total is 0, the size of the match when there is one, else every
\* size up to the number of candidates
BdLargestTried ==
    IF total_depositos_esperado = 0 THEN 0
    ELSE LET hit == FirstMatchFrom(candidatos, total_depositos_esperado, 1)
         IN  IF hit = None THEN Len(candidatos) ELSE Len(hit[1])

\* C24: the search is capped: there is a cap that a list of MaxCand candidates
\* reaches, so that no search goes through subsets of MaxCand candidates, and
\* a search that ends without a match prints its warning
C24_SearchIsCapped ==
    bd_pc = "done" =>
        /\ BdLargestTried <= MaxCand - 1
        /\ (~ bd_out.found_solution => "WARNING: no combination" \in bd_out.stdout)

----------------------------------------------------------------------------
(* Claims on the regular-section scanner *)

\* The lines of the section that carry an amount token
RsAmountLines == { k \in 1..Len(rs_lines) : AmountSearch(rs_lines[k]) # None }

\* The section is one record: a record-start line without an amount, then only
\* continuation lines, one of which carries an amount token
RsOneMultiLineRecord ==
    /\ Len(rs_lines) >= 2
    /\ IsRegularStart(rs_lines[1])
    /\ \A k \in 2..Len(rs_lines) : ~IsRegularStart(rs_lines[k])
    /\ 1 \notin RsAmountLines
    /\ RsAmountLines # {}

\* The first line that carries an amount token
RsResolvingLine == CHOOSE k \in RsAmountLines : \A j \in RsAmountLines : k <= j

\* The tokens of lines k..Len(lines) in source order, the token tok taken out
\* of line r
RECURSIVE RsTextWithout(_, _, _, _)
RsTextWithout(lines, k, r, tok) ==
    IF k > Len(lines) THEN << >>
    ELSE (IF k = r THEN SelectSeq(lines[k], LAMBDA t : t # tok) ELSE lines[k])
         \o RsTextWithout(lines, k + 1, r, tok)

\* C7: a record-start line with no amount followed by continuation lines, a later
\* one of which contains a signed amount token, yields exactly one Movement; its
\* description is the text of all the record's lines in source order with the
\* amount token removed, its amount and direction come from the resolving line.
C7_ContinuationMerging ==
    (rs_pc = "done" /\ RsOneMultiLineRecord) =>
        LET r == RsResolvingLine
            tok == AmountSearch(rs_lines[r])[1]
        IN  /\ Len(registros) = 1
            /\ registros[1].descripcion = RsTextWithout(rs_lines, 1, r, tok)
            /\ registros[1].monto = Abs(parse_monto(tok))
            /\ registros[1].tipo = (IF tok = "-$12,855.46" THEN "Abono" ELSE "Cargo")
            /\ registros[1].fecha_oper = rs_lines[1][1]
            /\ registros[1].fecha_liq = rs_lines[1][2]

\* The scenario of the spec: a start line, a plain continuation, and a second
\* continuation that carries the amount
C7_Witness ==
    /\ rs_pc = "done"
    /\ rs_lines = << << "24-NOV-2025", "25-NOV-2025", "PAGO", "TDC" >>,
                     << "Transferencia" >>,
                     << "CLABE", "-$12,855.46" >> >>
    /\ Len(registros) = 1
    /\ registros[1].descripcion =
           << "24-NOV-2025", "25-NOV-2025", "PAGO", "TDC", "Transferencia", "CLABE" >>
    /\ registros[1].monto = 1285546
    /\ registros[1].tipo = "Abono"

\* The record-start lines among the first n lines of the section
RsStarts(n) == { k \in 1..n : rs_lines[k] # << >> /\ IsRegularStart(rs_lines[k]) }

\* The lines of the record that starts on line k: up to the next record start
RsRecordLines(k) ==
    { j \in k..Len(rs_lines) : \A m \in (k + 1)..j : m \notin RsStarts(Len(rs_lines)) }

\* The first amount token on the lines of the record that starts on line k
RsAmountOf(k) ==
    LET hits == RsRecordLines(k) \cap RsAmountLines
    IN  IF hits = {} THEN None
        ELSE AmountSearch(rs_lines[CHOOSE j \in hits : \A i \in hits : j <= i])

\* The record starts whose pending record has been flushed: all of them once
\* the scan is done, all but the last one read while it runs
RsFlushed ==
    IF rs_pc = "done" THEN RsStarts(Len(rs_lines))
    ELSE { k \in RsStarts(rs_pos - 1) : \E m \in RsStarts(rs_pos - 1) : m > k }

\* A set of line numbers as a sequence in source order
RECURSIVE RsInOrder(_)
RsInOrder(S) ==
    IF S = {} THEN << >>
    ELSE LET k == CHOOSE a \in S : \A b \in S : a <= b
         IN  << k >> \o RsInOrder(S \ {k})

\* C22: the movements emitted so far are, one for one and in source order, the
\* flushed records whose amount was resolved; each is emitted once, when the
\* next record start arrives or at the end of the section
C22_FlushedExactlyOnce ==
    rs_pc \in { "scan", "done" } =>
        LET emitted == RsInOrder({ k \in RsFlushed : RsAmountOf(k) # None })
        IN  /\ Len(registros) = Len(emitted)
            /\ \A i \in 1..Len(emitted) :
                  /\ registros[i].fecha_oper = rs_lines[emitted[i]][1]
                  /\ registros[i].monto = Abs(parse_monto(RsAmountOf(emitted[i])[1]))
                  /\ SubSeq(registros[i].descripcion, 1, 3) = SubSeq(rs_lines[emitted[i]], 1, 3)

\* C22 witness: two resolved records were emitted in source order, the first
\* on the arrival of the second record start, the second at the end
C22_Witness ==
    /\ rs_pc = "done"
    /\ rs_lines = << << "24-NOV-2025", "25-NOV-2025", "PAGO", "TDC" >>,
                     << "CLABE", "-$12,855.46" >>,
                     << "24-NOV-2025", "25-NOV-2025", "COMPRA", "+$13.00" >> >>
    /\ Len(registros) = 2
    /\ registros[1].monto = 1285546
    /\ registros[2].monto = 1300

\* The flushed records for which no amount was found
RsUnresolved == { k \in RsFlushed : RsAmountOf(k) = None }

\* The result of the document whose regular section was scanned, its summary
\* printing none of the totals
RsResult == banorte_parse([ l \in HdLabels("BANORTE") |-> None ], registros)

\* The parts of the result that hold the account, the movements, the header
\* and the validation report
RsKnownParts == { "account_number", "movements", "metadata", "account_type", "header",
                  "validation" }

\* C23: once a pending record was flushed with no amount found, no movement
\* stands for it, the scan has gone on to the end, and the result of the
\* document carries a diagnostic for it besides the movements, the header and
\* the validation report
C23_UnresolvedIsReported ==
    (rs_pc = "done" /\ RsUnresolved # {}) =>
        /\ Len(registros) = Cardinality(RsFlushed \ RsUnresolved)
        /\ (DOMAIN RsResult \cup DOMAIN RsResult.metadata) \ RsKnownParts # {}

----------------------------------------------------------------------------
(* Claims on the running balance reconstructor *)

SbDone == sb_pc = "done"

\* The parsed target date of the call (None when it does not parse)
SbTarget == parse_date_internal(Some(sb_call[1].target))

\* The order in which the call read the dated balances rows
SbOrder == sb_call[1].order

\* The stored movement rows that have a date
SbDatedMovs == { r \in SbRowsOf(movements) : parse_date_internal(r.fecha_oper) # None }

\* Sum of the amounts of the movements of type tipo among the rows S
RECURSIVE SbSum(_, _)
SbSum(S, tipo) ==
    IF S = {} THEN 0
    ELSE LET r == CHOOSE x \in S : TRUE
         IN  (IF r.tipo = tipo THEN movements[r] * r.monto ELSE 0) + SbSum(S \ {r}, tipo)

\* Credits minus debits of the rows S
SbNet(S) == SbSum(S, "Abono") - SbSum(S, "Cargo")

\* The cutoffs earlier than the cutoff of period m
SbEarlierCuts(m) ==
    { SbCorte(balances, k) : k \in { x \in SbDated(balances) :
                                       SbCorte(balances, x) < SbCorte(balances, m) } }

\* The movements of period m: after the previous period's cutoff, up to its own
SbPeriodMovs(m) ==
    { r \in SbDatedMovs :
        /\ \A c \in SbEarlierCuts(m) : SbDt(r) > c
        /\ SbDt(r) <= SbCorte(balances, m) }

\* The stored movements of period m account for the difference between its
\* opening and its closing balance
SbAccounted(m) ==
    balances[m][1].saldo_final = balances[m][1].saldo_inicial + SbNet(SbPeriodMovs(m))

\* C8 as claimed: the balance reconstructed at a period's cutoff date is that
\* period's stored closing balance, when no anchor is missing and the period's
\* movements account for the difference between opening and closing balance.
C8_CutoffGivesClosing ==
    (SbDone /\ SbTarget # None /\ SbDated(balances) = SbStored(balances)) =>
        \A m \in SbDated(balances) :
            (SbTarget[1] = SbCorte(balances, m) /\ SbAccounted(m)) =>
                sb_result[1] = balances[m][1].saldo_final

\* C8 amended: the same, for a period that has no movement dated on the cutoff
\* date itself and whose cutoff date no other anchor shares.
C8_CutoffGivesClosingBeforeCutoffDay ==
    (SbDone /\ SbTarget # None /\ SbDated(balances) = SbStored(balances)) =>
        \A m \in SbDated(balances) :
            ( /\ SbTarget[1] = SbCorte(balances, m)
              /\ SbAccounted(m)
              /\ \A r \in SbPeriodMovs(m) : SbDt(r) # SbCorte(balances, m)
              /\ \A k \in SbDated(balances) \ {m} :
                    SbCorte(balances, k) # SbCorte(balances, m) ) =>
                sb_result[1] = balances[m][1].saldo_final

\* A second period rebuilt at its cutoff from a movement before the cutoff day
C8_Witness ==
    /\ SbDone /\ SbTarget # None
    /\ \E m \in SbDated(balances) :
          /\ SbTarget[1] = SbCorte(balances, m)
          /\ SbAccounted(m)
          /\ SbEarlierCuts(m) # {}
          /\ SbPeriodMovs(m) # {}
          /\ \A r \in SbPeriodMovs(m) : SbDt(r) # SbCorte(balances, m)
          /\ \A k \in SbDated(balances) \ {m} : SbCorte(balances, k) # SbCorte(balances, m)
          /\ sb_result[1] = balances[m][1].saldo_final
          /\ sb_result[1] # balances[m][1].saldo_inicial

\* Row i of the order read brackets the target: the previous cutoff is before
\* it, the row's own cutoff on or after it
SbBrackets(i) ==
    /\ i = 1 \/ SbCorte(balances, SbOrder[i - 1]) < SbTarget[1]
    /\ SbTarget[1] <= SbCorte(balances, SbOrder[i])

\* The movements of the period of row i dated strictly before the target
SbReplayed(i) ==
    { r \in SbDatedMovs :
        /\ i = 1 \/ SbDt(r) > SbCorte(balances, SbOrder[i - 1])
        /\ SbDt(r) <= SbCorte(balances, SbOrder[i])
        /\ SbDt(r) < SbTarget[1] }

\* C9: for a target inside a known period the result is the period's opening
\* balance plus its Credit movements dated strictly before the target minus its
\* Debit movements dated strictly before the target; nothing else counts.
C9_ReplayWithinPeriod ==
    (SbDone /\ SbTarget # None) =>
        \A i \in 1..Len(SbOrder) :
            SbBrackets(i) =>
                sb_result[1] = balances[SbOrder[i]][1].saldo_inicial
                                 + SbSum(SbReplayed(i), "Abono") - SbSum(SbReplayed(i), "Cargo")

\* A target inside a second period, with a movement replayed and one left out
C9_Witness ==
    /\ SbDone /\ SbTarget # None
    /\ Len(SbOrder) = 2 /\ SbBrackets(2)
    /\ SbReplayed(2) # {}
    /\ SbDatedMovs \ SbReplayed(2) # {}
    /\ sb_result[1] # balances[SbOrder[2]][1].saldo_inicial

\* The movements dated after the latest cutoff and strictly before the target
SbAfterLatest ==
    { r \in SbDatedMovs :
        /\ SbDt(r) > SbCorte(balances, SbOrder[Len(SbOrder)])
        /\ SbDt(r) < SbTarget[1] }

\* C10: for a target later than every known cutoff the result is the latest
\* period's closing balance adjusted by the movements dated strictly after that
\* cutoff and strictly before the target (the closing balance itself when there
\* is none).
C10_ExtrapolateFromLatest ==
    (SbDone /\ SbTarget # None /\ Len(SbOrder) >= 1) =>
        (SbTarget[1] > SbCorte(balances, SbOrder[Len(SbOrder)]) =>
            sb_result[1] = balances[SbOrder[Len(SbOrder)]][1].saldo_final
                             + SbNet(SbAfterLatest))

----------------------------------------------------------------------------
(* Claims on the returned movements *)

NzReturned == nz_pc \in { "debit", "v2" }

\* C11: every Movement a parser returns has amount > 0 and a direction that
\* is exactly Abono or Cargo; a row whose amount or direction could not be
\* resolved is not returned.
C11_MovementsResolved ==
    NzReturned =>
        \A k \in DOMAIN nz_out[1] :
            nz_out[1][k].monto > 0 /\ nz_out[1][k].tipo \in { "Abono", "Cargo" }

\* A cell of an amount column holds an amount
NzPopulated(texto) == texto \in { "1,500.00", "$ 250.00" }

\* The direction the keywords of a description stand for: payment and deposit
\* words for a credit, withdrawal and fee words for a debit
NzKeywordDirection(descripcion) ==
    CASE descripcion \in { "PAGO SERVICIO", "DEPOSITO EFECTIVO" } -> "Abono"
      [] descripcion = "COMISION CHEQUE"                          -> "Cargo"
      [] OTHER                                                    -> "Desconocido"

\* C26: a row with an amount in the deposit column only is an Abono, a row with
\* an amount in the withdrawal column only is a Cargo, and when both columns
\* hold an amount the direction is the one the keywords of the description
\* stand for
C26_ColumnsGiveDirection ==
    nz_pc = "debit" =>
        \A k \in DOMAIN nz_rows :
            LET m == nz_rows[k]
            IN  /\ (NzPopulated(m.deposito) /\ ~ NzPopulated(m.retiro))
                      => nz_out[1][k].tipo = "Abono"
                /\ (NzPopulated(m.retiro) /\ ~ NzPopulated(m.deposito))
                      => nz_out[1][k].tipo = "Cargo"
                /\ (NzPopulated(m.deposito) /\ NzPopulated(m.retiro))
                      => /\ nz_out[1][k].tipo = NzKeywordDirection(m.concepto)
                         /\ nz_out[1][k].tipo \in { "Abono", "Cargo" }

\* The rows _parse_checking_movements appends for the pending records
NzRows == parse_checking_movements(nz_rows, nz_start)

\* The running balance when the k-th pending record is flushed
NzLastSaldo(k) ==
    LET before == { j \in 1..(k - 1) : NzRows[j].saldo # None }
    IN  IF before = {} THEN nz_start
        ELSE NzRows[CHOOSE j \in before : \A i \in before : i <= j].saldo

\* The k-th record has no pair that continues the balance chain, so that its
\* direction is left to the keywords of its concept
NzByKeywords(k) ==
    /\ Len(nz_rows[k].amounts) >= 2
    /\ \/ NzLastSaldo(k) = None
       \/ NzMatchFrom(nz_rows[k].amounts, NzLastSaldo(k)[1], 1) = None

\* C27: when the direction of a row is decided by the keywords of its
\* description, a description with a payment or deposit keyword is an Abono and
\* a description with a withdrawal or fee keyword is a Cargo
C27_KeywordsGiveDirection ==
    nz_pc = "v2" =>
        \A k \in DOMAIN nz_rows :
            (NzByKeywords(k) /\ NzKeywordDirection(nz_rows[k].concept) # "Desconocido")
                => nz_out[1][k].tipo = NzKeywordDirection(nz_rows[k].concept)

\* The adjacent pairs of the amounts of the k-th record that continue the
\* carried balance prev as a withdrawal, and as a deposit
NzDebitPairs(k, prev) ==
    { i \in 1..(Len(nz_rows[k].amounts) - 1) :
        Abs(prev - nz_rows[k].amounts[i] - nz_rows[k].amounts[i + 1]) < 5 }

NzCreditPairs(k, prev) ==
    { i \in 1..(Len(nz_rows[k].amounts) - 1) :
        Abs(prev + nz_rows[k].amounts[i] - nz_rows[k].amounts[i + 1]) < 5 }

\* The k-th record is classified through the balance chain
NzChained(k) ==
    /\ NzLastSaldo(k) # None
    /\ NzDebitPairs(k, NzLastSaldo(k)[1]) \cup NzCreditPairs(k, NzLastSaldo(k)[1]) # {}

\* The deposit less the withdrawal of a row
NzSigned(row) ==
    (IF row.deposito # None THEN row.deposito[1] ELSE 0)
        - (IF row.retiro # None THEN row.retiro[1] ELSE 0)

\* C29: in the checking scanner started with an opening balance, a record
\* classified through the balance chain by a pair m, s is a withdrawal of m when
\* previous - m = s and a deposit of m when previous + m = s, its balance is s,
\* and so its balance is the balance carried from the preceding record plus its
\* deposit or minus its withdrawal, within 0.05
C29_BalanceChain ==
    (nz_pc = "v2" /\ nz_start # None) =>
        \A k \in DOMAIN nz_rows :
            NzChained(k) =>
                LET prev    == NzLastSaldo(k)[1]
                    amounts == nz_rows[k].amounts
                    row     == NzRows[k]
                IN  /\ \/ \E i \in NzDebitPairs(k, prev) :
                             /\ row.retiro = Some(amounts[i])
                             /\ row.deposito = None
                             /\ row.saldo = Some(amounts[i + 1])
                       \/ \E i \in NzCreditPairs(k, prev) :
                             /\ row.deposito = Some(amounts[i])
                             /\ row.retiro = None
                             /\ row.saldo = Some(amounts[i + 1])
                    /\ row.monto_sin_clasificar = None
                    /\ Abs(prev + NzSigned(row) - row.saldo[1]) < 5
                    /\ k < Len(nz_rows) => NzLastSaldo(k + 1) = row.saldo

\* A withdrawal found through the chain is followed by a deposit found through
\* the chain from the balance the withdrawal left
C29_Witness ==
    /\ nz_pc = "v2"
    /\ nz_start # None
    /\ \E k \in DOMAIN nz_rows :
          /\ k > 1
          /\ NzChained(k - 1)
          /\ NzChained(k)
          /\ NzRows[k - 1].retiro # None
          /\ NzRows[k].deposito # None
          /\ NzLastSaldo(k) # nz_start

----------------------------------------------------------------------------
(* Claims on the statement headers *)

\* C12: in every header a parser produces, a field the statement text does
\* not report is null, never 0, so that a missing total is distinguishable
\* from a total reported as zero.
C12_AbsentFieldsNull ==
    hd_pc \notin { "off", "text" } =>
        \A f \in DOMAIN hd_header[1] :
            hd_text[HdLabelOf(f)] = None => hd_header[1][f] = None

----------------------------------------------------------------------------
(* Claims on the format dispatcher *)

\* The text is a statement of institution b: its head names b and no other
\* institution, and the sections it has are those of b's statements
GpStatementOf(b) ==
    /\ gp_text.head \cap GpInstitutions = { b }
    /\ (gp_text.head \cup gp_text.body) \cap GpSections \subseteq
          CASE b = "SCOTIABANK" -> GpSections \ { "DETALLE DE MOVIMIENTOS REALIZADOS" }
            [] b = "BBVA"       -> { "DETALLE DE MOVIMIENTOS REALIZADOS" }
            [] OTHER            -> {}

\* C13: a document whose header identifies one institution and which names
\* another institution only after the early prefix of the text (in
\* transaction descriptions) is dispatched to a parser of the header's
\* institution, never to the other institution's parser.
C13_HeaderInstitutionWins ==
    gp_pc = "done" =>
        \A b \in GpInstitutions :
            GpStatementOf(b) =>
                gp_parser # None /\ GpInstitutionOf(gp_parser[1]) = b

----------------------------------------------------------------------------
(* Claims on the upload flow *)

\* The last request was an upload that consulted the dispatcher
UpDispatched ==
    /\ up_pc = "uploaded"
    /\ up_last[1].manual_parser \in { None, Some("Automatico") }

\* The text holds none of the markers get_parser recognises
UpNoMarkers(text) == (text.head \cup text.body) \cap GpMarkers = {}

\* C14: for a text with none of the recognised institution or section
\* markers get_parser returns no parser, and the upload flow records an error
\* result for the document without parsing it and without calling any
\* persistence operation for it.
C14_NoMatchIsReportedError ==
    (UpDispatched /\ UpNoMarkers(up_last[1].text)) =>
        /\ get_parser(up_last[1].text) = None
        /\ up_last[1].result.status = "error"
        /\ ~up_last[1].parsed
        /\ up_last[1].calls = << >>
        /\ up_db = up_last[1].db_before

\* An unrecognised text for which the dispatcher answered None, with a
\* statement already stored
C14_Witness ==
    /\ UpDispatched /\ UpNoMarkers(up_last[1].text)
    /\ up_last[1].parser = None
    /\ up_last[1].result = UpError("No parser found")
    /\ up_last[1].df # << >>
    /\ up_db.movements # {}

\* The rows of both tables as (table, id) pairs
UpStored(db) ==
    { << "movements", e.id >> : e \in db.movements }
        \cup { << "msi_movements", e.id >> : e \in db.msi_movements }

\* C17: after delete_upload with the id an upload returned, none of the rows
\* that upload saved is left in movements or msi_movements, and the rows saved
\* by the other uploads are those that were there before
C17_DeleteRemovesUploadRows ==
    (up_last # None /\ up_last[1].op = "delete_upload") =>
        /\ up_saved[up_last[1].upload_id] \cap UpStored(up_db) = {}
        /\ \A other \in DOMAIN up_saved \ { up_last[1].upload_id } :
              up_saved[other] \cap UpStored(up_db)
                  = up_saved[other] \cap UpStored(up_last[1].db_before)

\* Credits less debits over the rows of a movement set that are not rows of
\* an installment plan
RECURSIVE UpCashFlow(_)
UpCashFlow(df) ==
    IF df = << >> THEN 0
    ELSE (IF Head(df).categoria = "MSI" THEN 0
          ELSE IF Head(df).tipo = "Abono" THEN Head(df).monto
          ELSE 0 - Head(df).monto) + UpCashFlow(Tail(df))

\* C19: the difference the upload flow computes from the movements and sets
\* against the reported balances has no contribution of an installment-plan row
C19_InstallmentRowsOutOfTotals ==
    (/\ up_last # None
     /\ up_last[1].op = "upload"
     /\ up_last[1].result.status = "success"
     /\ up_last[1].bal.saldo_inicial # None
     /\ up_last[1].bal.saldo_final # None)
        => up_last[1].result.control_figures.actual_diff = UpCashFlow(up_last[1].df)

\* The last request was an upload whose parser returned a movement set
UpParsedUpload == up_last # None /\ up_last[1].op = "upload" /\ up_last[1].parsed

\* save_movements was called once, with the movement set the parser returned
UpSavedUnchanged ==
    LET saves == { k \in 1..Len(up_last[1].calls) : up_last[1].calls[k].fn = "save_movements" }
    IN  /\ Cardinality(saves) = 1
        /\ \A k \in saves : up_last[1].calls[k].df = up_last[1].df

\* C20 as stated: whenever parsing returns a movement set, that set is passed
\* unchanged to save_movements
C20_ParsedSetIsSaved == UpParsedUpload => UpSavedUnchanged

\* The month of the form, when given, is the month of the cut-off date, when
\* the statement has one
UpMonthAgrees ==
    \/ up_last[1].month = None
    \/ up_last[1].bal.fecha_corte = None
    \/ up_last[1].month = Some("2024-11") /\ up_last[1].bal.fecha_corte = Some("25-NOV-2024")

\* C20 amended: whenever parsing returns a movement set and the month of the
\* form does not disagree with the cut-off date, that set is passed unchanged
\* to save_movements and the upload succeeds, whether or not the control
\* figures match
C20_ParsedSetIsSavedWhenMonthAgrees ==
    (UpParsedUpload /\ UpMonthAgrees) =>
        UpSavedUnchanged /\ up_last[1].result.status = "success"

\* C20 witness: the control figures did not match, and the movement set was
\* saved as returned
C20_Witness ==
    /\ UpParsedUpload
    /\ up_last[1].result.status = "success"
    /\ ~ up_last[1].result.control_figures.ok
    /\ Len(up_last[1].df) = 2
    /\ UpSavedUnchanged
    /\ Cardinality(UpStored(up_db)) = Cardinality(UpStored(up_last[1].db_before)) + 2

\* The last request stored a movement set whose rows an earlier call of
\* save_movements had stored in a database that held nothing else
UpSecondCall ==
    /\ up_last # None
    /\ up_last[1].op = "upload"
    /\ up_last[1].result.status = "success"
    /\ up_last[1].df # << >>
    /\ LET first == save_movements(up_last[1].df, None, UpEmptyDb).db
       IN  /\ up_last[1].db_before.movements = first.movements
           /\ up_last[1].db_before.msi_movements = first.msi_movements

\* The row indexes of the rows of df that are not installment rows, in order
RECURSIVE UpRegularIndexes(_, _)
UpRegularIndexes(df, k) ==
    IF k > Len(df) THEN << >>
    ELSE (IF df[k].categoria = "MSI" THEN << >> ELSE << k - 1 >>)
             \o UpRegularIndexes(df, k + 1)

\* C30: a second call of save_movements with the same rows reports every row
\* that is not an installment row as a duplicate and inserts none, and leaves
\* the movements and the installment tables with the rows the first call stored
C30_SecondSaveChangesNothing ==
    UpSecondCall =>
        LET second == save_movements(up_last[1].df, None, up_last[1].db_before)
        IN  /\ second.skipped_duplicates = UpRegularIndexes(up_last[1].df, 1)
            /\ \A t \in second.inserted : t[1] # "movements"
            /\ up_db.movements = up_last[1].db_before.movements
            /\ up_db.msi_movements = up_last[1].db_before.msi_movements

----------------------------------------------------------------------------
(* Claims on the spatial column extraction *)

\* The word printed with this text
ClWordAt(text) ==
    CHOOSE w \in { ClDia, ClMes, ClPago, ClRef, ClDep, ClRet, ClNota }
                 \cup { ClHeaderWord(ClColumns[k]) : k \in 1..Len(ClColumns) } : w.text = text

\* The header anchors of a page: the x0 of each header word printed
ClAnchors(page) ==
    [ c \in { page.header[k] : k \in 1..Len(page.header) } |-> ClHeaderWord(c).x0 ]

\* The column a word belongs to by the midpoint rule: the one whose anchor is
\* nearest to the centre of the word, the right one when two are equally near
ClAbs(n) == IF n < 0 THEN 0 - n ELSE n

ClNearest(w, anchors) ==
    CHOOSE c \in DOMAIN anchors : \A d \in DOMAIN anchors \ {c} :
        \/ ClAbs(2 * anchors[c] - (w.x0 + w.x1)) < ClAbs(2 * anchors[d] - (w.x0 + w.x1))
        \/ /\ ClAbs(2 * anchors[c] - (w.x0 + w.x1)) = ClAbs(2 * anchors[d] - (w.x0 + w.x1))
           /\ anchors[c] > anchors[d]

\* The pages the loop has been through whose table was read
ClRead == { i \in 1..Len(cl_filas) : cl_filas[i].limites # None }

\* C15: every raw row is one line of the page with each of its words in exactly
\* one cell, the cell of the column the midpoint rule gives for the position of
\* the word and the anchors of the page, whatever the row
C15_ColumnByMidpoints ==
    \A i \in ClRead : \A r \in 1..Len(cl_filas[i].filas_raw) :
        LET row == cl_filas[i].filas_raw[r]
        IN  \E l \in 1..Len(ClLines(cl_pages[i])) :
                LET line == ClLines(cl_pages[i])[l]
                IN  \A c \in DOMAIN row :
                        LET at == SelectSeq(line,
                                      LAMBDA w : ClNearest(w, ClAnchors(cl_pages[i])) = c)
                        IN  row[c] = [ k \in 1..Len(at) |-> at[k].text ]

\* C15 witness: with anchors 10, 100, 200, 300, 400, 500 the word centred on
\* 150 went to the column anchored at 200 in two different rows, and on a page
\* without the anchor at 200 it went to the column anchored at 100
C15_Witness ==
    /\ \E i \in ClRead :
          /\ Len(cl_pages[i].header) = 6
          /\ \E r1, r2 \in 1..Len(cl_filas[i].filas_raw) :
                /\ r1 # r2
                /\ cl_filas[i].filas_raw[r1]["origen"] = << "PAGO" >>
                /\ cl_filas[i].filas_raw[r2]["origen"] = << "REF" >>
    /\ \E i \in ClRead :
          /\ "origen" \notin Range(cl_pages[i].header)
          /\ \E r \in 1..Len(cl_filas[i].filas_raw) :
                "PAGO" \in Range(cl_filas[i].filas_raw[r]["concepto"])

\* The pages of movements on which fewer than five header columns are printed
ClShort == { i \in 1..Len(cl_filas) :
               cl_pages[i].title /\ Len(cl_pages[i].header) < 5 }

\* The rows the pages from i on have contributed
RECURSIVE ClContributed(_)
ClContributed(i) ==
    IF i > Len(cl_filas) THEN << >>
    ELSE (IF i \in ClShort THEN << >> ELSE cl_filas[i].movimientos) \o ClContributed(i + 1)

\* C16: a page with fewer than five header columns contributes no rows, and
\* the loop goes on: every page before the loop position has been through it
\* and the movements are those of the other pages, in page order
C16_ShortHeaderPageSkipped ==
    /\ \A i \in ClShort : cl_filas[i].movimientos = << >> /\ cl_filas[i].filas_raw = << >>
    /\ Len(cl_filas) = cl_pos - 1
    /\ cl_movimientos = ClContributed(1)

\* C16 witness: the first page had too few header columns and a table body,
\* the second page was read after it and gave movements
C16_Witness ==
    /\ cl_pos = 3
    /\ 1 \in ClShort
    /\ cl_pages[1].body # << >>
    /\ Len(cl_pages[1].header) = 4
    /\ cl_filas[2].movimientos # << >>
    /\ cl_movimientos = cl_filas[2].movimientos

\* The lines of the table of a page: below the header line (the line of the
\* word "Fecha") and above the first line of the notes block
ClTableLines(page) ==
    LET lines  == ClLines(page)
        header == IF "fecha" \in Range(page.header) THEN 1 ELSE 0
        notes  == { l \in 1..Len(lines) :
                      l > header /\ \E k \in 1..Len(lines[l]) : lines[l][k].text = ClNota.text }
    IN  { l \in 1..Len(lines) : l > header /\ lines[l] # << >> /\ \A n \in notes : l < n }

\* The cell of column c on line l: the words the midpoint rule puts there
ClCell(page, l, c) ==
    LET at == SelectSeq(ClLines(page)[l], LAMBDA w : ClNearest(w, ClAnchors(page)) = c)
    IN  [ k \in 1..Len(at) |-> at[k].text ]

\* The lines of the table whose date cell is date-shaped
ClDateLines(page) ==
    { l \in ClTableLines(page) :
        "fecha" \in Range(page.header) /\ ClIsFecha(ClCell(page, l, "fecha")) }

\* The cells of column c on the lines l..Len of the table, up to the next date
\* line, joined
RECURSIVE ClMerged(_, _, _, _)
ClMerged(page, l, c, first) ==
    IF l > Len(ClLines(page)) \/ (~ first /\ l \in ClDateLines(page)) THEN << >>
    ELSE (IF l \in ClTableLines(page) THEN ClCell(page, l, c) ELSE << >>)
         \o ClMerged(page, l + 1, c, FALSE)

\* C25: the rows of a page are, in order, its date-shaped lines between the
\* header and the notes marker; the description and reference cells of a row
\* are those of its date line and of the lines that follow up to the next
\* date line; a line before the first date line or from the marker on is in
\* no row
C25_RowsAreDateLines ==
    \A i \in ClRead :
        LET page  == cl_pages[i]
            dates == RsInOrder(ClDateLines(page))
            movs  == cl_filas[i].movimientos
        IN  /\ Len(movs) = Len(dates)
            /\ \A k \in 1..Len(dates) :
                  /\ ClIsFecha(movs[k]["fecha"])
                  /\ \A c \in { "concepto", "origen" } \cap Range(page.header) :
                        movs[k][c] = ClMerged(page, dates[k], c, TRUE)

\* C25 witness: a page with a continuation line before the first date line, a
\* date line, the notes marker and a line after it gave one row, and a page
\* with a date line and a continuation gave one row with both descriptions
C25_Witness ==
    /\ \E i \in ClRead :
          /\ Len(cl_pages[i].body) = 4
          /\ Len(cl_filas[i].movimientos) = 1
          /\ cl_filas[i].movimientos[1]["concepto"] = << >>
    /\ \E i \in ClRead :
          /\ Len(cl_pages[i].header) = 6
          /\ Len(cl_pages[i].body) = 2
          /\ Len(cl_filas[i].movimientos) = 1
          /\ cl_filas[i].movimientos[1]["origen"] = << "PAGO", "REF" >>

----------------------------------------------------------------------------
(* Claims on the installment rows *)

\* Line k stands in the installment section: the last section title or totals
\* line above it is the title of the installment section
MsInInstallmentSection(lines, k) ==
    /\ k \in 1..Len(lines)
    /\ lines[k].kind \notin { "msi_title", "reg_title", "total" }
    /\ \E t \in 1..(k - 1) :
          /\ lines[t].kind = "msi_title"
          /\ \A u \in (t + 1)..(k - 1) : lines[u].kind \notin { "reg_title", "total" }

\* C18: a movement read from a row of the installment section has the required
\* payment of the row as its amount, the category MSI, and the original
\* principal and the remaining balance of the row as metadata
C18_InstallmentRowAmount ==
    ms_out # None =>
        \A i \in 1..Len(ms_out[1].movements) :
            LET mov == ms_out[1].movements[i]
            IN  MsInInstallmentSection(ms_lines, mov.linea) =>
                    /\ mov.monto = MsMoney(ms_lines[mov.linea].pago)
                    /\ mov.categoria = "MSI"
                    /\ mov.meta_monto_original = Some(MsMoney(ms_lines[mov.linea].orig))
                    /\ mov.meta_saldo_pendiente = Some(MsMoney(ms_lines[mov.linea].saldo))

\* C18 witness: a parser returned a movement for an installment row whose
\* required payment differs from its principal
C18_Witness ==
    /\ ms_out # None
    /\ \E i \in 1..Len(ms_out[1].movements) :
          LET mov == ms_out[1].movements[i]
          IN  /\ MsInInstallmentSection(ms_lines, mov.linea)
              /\ mov.monto = 71775
              /\ mov.meta_monto_original = Some(861256)
              /\ mov.meta_saldo_pendiente = Some(0)

----------------------------------------------------------------------------
(* Claims on the section scan *)

\* The line the loop is about to read
SxLine == sx_lines[sx_pos]

\* The scanner is in no section
SxIdle(st) == ~ st.en_msi /\ ~ st.en_regulares

\* What one turn of the loop may do to the flags and the rows
SxTurn ==
    (sx_pos \in 1..Len(sx_lines) /\ sx_pos' = sx_pos + 1) =>
        /\ ~ (sx_st'.en_msi /\ sx_st'.en_regulares)
        /\ (~ sx_st.en_msi /\ sx_st'.en_msi) => SxLine.kind = "msi_title"
        /\ (~ sx_st.en_regulares /\ sx_st'.en_regulares) => SxLine.kind = "reg_title"
        /\ (sx_st.en_msi /\ ~ sx_st'.en_msi) => SxLine.kind \in { "total", "reg_title" }
        /\ (sx_st.en_regulares /\ ~ sx_st'.en_regulares)
              => SxLine.kind \in { "total", "msi_title" }
        /\ SxIdle(sx_st) => sx_st'.regs = sx_st.regs

\* C21: the installment and the regular flag are never both set; a section is
\* entered only on its own header line and left only on a totals line or on
\* the header line of the other section; a line read in no section adds no row
C21_SectionStates ==
    /\ [](sx_pos > 0 => ~ (sx_st.en_msi /\ sx_st.en_regulares))
    /\ [][SxTurn]_vars

\* C21 witness: the scan went from the installment section, where it read a
\* row, to the regular section on the header line of the latter
C21_Witness ==
    /\ sx_pos - 1 \in 2..Len(sx_lines)
    /\ sx_st.en_regulares /\ ~ sx_st.en_msi
    /\ sx_lines[sx_pos - 1].kind = "reg_title"
    /\ \E i \in 1..Len(sx_st.regs) : sx_st.regs[i].categoria = "MSI"

----------------------------------------------------------------------------
(* Claims on the balance anchors *)

\* The key of a call or of a stored row
AnKey(r) == [ col \in AnKeyColumns |-> r[col] ]

AnValues(r) ==
    [ saldo_inicial |-> r.saldo_inicial, saldo_final |-> r.saldo_final,
      fecha_corte |-> r.fecha_corte ]

AnKeys == { AnKey(c) : c \in AnCalls }

\* C28: after any sequence of save_balance calls a key that was saved has
\* exactly one row, holding the balances and the cutoff date of the most
\* recent call for that key, and a key that was never saved has none; so the
\* row of a key depends on the calls for that key only
C28_OneAnchorPerKey ==
    \A key \in AnKeys :
        LET calls  == { i \in DOMAIN an_calls : AnKey(an_calls[i]) = key }
            stored == { i \in DOMAIN an_rows : AnKey(an_rows[i]) = key }
        IN  IF calls = {} THEN stored = {}
            ELSE LET last == CHOOSE i \in calls : \A j \in calls : j <= i
                 IN  /\ Cardinality(stored) = 1
                     /\ \A i \in stored : AnValues(an_rows[i]) = AnValues(an_calls[last])

====
